---- MODULE Spec2Model ----
(***************************************************************************)
(* JSONExtractor (ai-agentless-recipe-shoplist/app/utils/json_extractor.py) *)
(* as a state machine: an extractor holding a rule set serves extract()     *)
(* calls, one rule of one record per step.                                  *)
(*                                                                          *)
(* Strings (keys, paths, string values, regex patterns) are sequences of    *)
(* one-character strings, so the code's substring tests, splits, replaces   *)
(* and concatenations are computed.  JSON values are tagged records:        *)
(*   [t |-> "null"], [t |-> "bool", v], [t |-> "num", v], [t |-> "str", v], *)
(*   [t |-> "map", v |-> function from keys], [t |-> "list", v |-> sequence]*)
(***************************************************************************)
EXTENDS Integers, Sequences, FiniteSets, TLC

VARIABLES rules, data0, data, pc, idx, r, output, alias, results, result,
          model, convlog, seen, other

vars == <<rules, data0, data, pc, idx, r, output, alias, results, result,
          model, convlog, seen, other>>

(***************************************************************************)
(* Bounds                                                                   *)
(***************************************************************************)
MaxRules == 2
MaxRecs == 2

(***************************************************************************)
(* Strings                                                                  *)
(***************************************************************************)
StartsAt(s, sub, i) ==
    /\ i + Len(sub) - 1 <= Len(s)
    /\ \A j \in 1..Len(sub) : s[i + j - 1] = sub[j]

\* str.find + 1: the first position where sub occurs in s, 0 when it does not
Find(s, sub) ==
    IF \E i \in 1..(Len(s) + 1) : StartsAt(s, sub, i)
    THEN CHOOSE i \in 1..(Len(s) + 1) :
            StartsAt(s, sub, i) /\ \A j \in 1..(i - 1) : ~StartsAt(s, sub, j)
    ELSE 0

\* sub in s
StrIn(sub, s) == Find(s, sub) # 0

\* s.split(sep, 1) for a separator that occurs in s
SplitOnce(s, sep) ==
    LET i == Find(s, sep)
    IN  <<SubSeq(s, 1, i - 1), SubSeq(s, i + Len(sep), Len(s))>>

RECURSIVE StrSplit(_, _)
\* s.split(sep)
StrSplit(s, sep) ==
    LET i == Find(s, sep)
    IN  IF i = 0 THEN <<s>>
        ELSE <<SubSeq(s, 1, i - 1)>> \o StrSplit(SubSeq(s, i + Len(sep), Len(s)), sep)

RECURSIVE StrRemove(_, _)
\* s.replace(old, "")
StrRemove(s, old) ==
    LET i == Find(s, old)
    IN  IF i = 0 THEN s
        ELSE SubSeq(s, 1, i - 1) \o StrRemove(SubSeq(s, i + Len(old), Len(s)), old)

Star == <<"[", "*", "]">>
StarDot == <<"[", "*", "]", ".">>
Dot == <<".">>
Underscore == <<"_">>
At == <<"@">>
kName == <<"n", "a", "m", "e">>

\* re.match in place of re.search: a match at the start of s only
ReSearch_match(pattern, s) == StartsAt(s, pattern, 1)

\* re.compile(pattern).search(s) for a literal pattern: a match anywhere in s
ReSearch(pattern, s) == StrIn(pattern, s)

(***************************************************************************)
(* JSON values                                                              *)
(***************************************************************************)
Null == [t |-> "null"]
JBool(b) == [t |-> "bool", v |-> b]
JNum(n) == [t |-> "num", v |-> n]
JStr(s) == [t |-> "str", v |-> s]
JMap(f) == [t |-> "map", v |-> f]
JList(s) == [t |-> "list", v |-> s]
EmptyMap == JMap(<<>>)
EmptyList == JList(<<>>)

IsMap(x) == x.t = "map"
IsList(x) == x.t = "list"
IsStr(x) == x.t = "str"

\* key in mapping
HasKey(m, k) == k \in DOMAIN m.v

\* mapping[key] = value
Put(m, k, x) == JMap([j \in (DOMAIN m.v) \cup {k} |-> IF j = k THEN x ELSE m.v[j]])

\* mapping.get(key)
Get(m, k) == IF IsMap(m) /\ HasKey(m, k) THEN m.v[k] ELSE Null

Min(a, b) == IF a <= b THEN a ELSE b
Max(a, b) == IF a >= b THEN a ELSE b

\* seq[n:] in place of seq[:n]
SliceTo_from(s, n) ==
    IF n >= 0 THEN SubSeq(s, Min(n, Len(s)) + 1, Len(s))
    ELSE SubSeq(s, Max(Len(s) + n, 0) + 1, Len(s))

\* seq[:n]
SliceTo(s, n) ==
    IF n >= 0 THEN SubSeq(s, 1, Min(n, Len(s)))
    ELSE SubSeq(s, 1, Max(Len(s) + n, 0))

(***************************************************************************)
(* jmespath: the path language of the rule keys (identifiers, ".", "[*]")   *)
(***************************************************************************)
\* the segments of a path: an identifier, or the projection mark Star
RECURSIVE SegTokens(_)
SegTokens(segs) ==
    IF segs = <<>> THEN <<>>
    ELSE LET s == Head(segs)
             i == Find(s, Star)
         IN  (IF i = 0 THEN <<s>> ELSE <<SubSeq(s, 1, i - 1), Star>>) \o SegTokens(Tail(segs))

Tokens(path) == SegTokens(StrSplit(path, Dot))

RECURSIVE JmesEval(_, _)
JmesEval(toks, x) ==
    IF toks = <<>> THEN x
    ELSE IF Head(toks) = Star
    THEN IF ~IsList(x) THEN Null
         ELSE LET sub == [i \in 1..Len(x.v) |-> JmesEval(Tail(toks), x.v[i])]
                  NotNull(y) == y # Null
              IN  JList(SelectSeq(sub, NotNull))
    ELSE JmesEval(Tail(toks), Get(x, Head(toks)))

\* jmespath.compile(path).search(x)
JmesSearch(path, x) == JmesEval(Tokens(path), x)

(***************************************************************************)
(* Rule instructions                                                        *)
(*   true                      [t |-> "true"]                               *)
(*   a string                  [t |-> "str", v |-> chars]                   *)
(*   a list of field names     [t |-> "list", v |-> <<name, ...>>]          *)
(*   a mapping                 [t |-> "dict", d |-> directives, sub |-> s]  *)
(* where d is a record over a subset of fields, limit, regex, default,      *)
(* filter, and sub is the sequence of the mapping's other (key, value)      *)
(* pairs in insertion order.  A field spec is a name [t |-> "str", v] or a  *)
(* nested spec [t |-> "dict", v |-> <<<<field, <<subfield, ...>>>>, ...>>]. *)
(***************************************************************************)
ITrue == [t |-> "true"]
IStr(s) == [t |-> "str", v |-> s]
IList(fs) == [t |-> "list", v |-> fs]
IDict(d, sub) == [t |-> "dict", d |-> d, sub |-> sub]
FName(s) == [t |-> "str", v |-> s]
FNested(pairs) == [t |-> "dict", v |-> pairs]

IsDictInstr(instr) == instr.t = "dict"
HasDirective(instr, name) == IsDictInstr(instr) /\ name \in DOMAIN instr.d

\* an exception leaving the engine, carried as a value up to the step
Raise == [t |-> "raise"]

RECURSIVE Raised(_)
\* the computation of x raised somewhere
Raised(x) ==
    CASE x.t = "raise" -> TRUE
      [] x.t = "map" -> \E k \in DOMAIN x.v : Raised(x.v[k])
      [] x.t = "list" -> \E i \in 1..Len(x.v) : Raised(x.v[i])
      [] OTHER -> FALSE

\* _is_mixed_instruction asking for any directive in place of fields
_is_mixed_instruction_any(instr) ==
    /\ IsDictInstr(instr)
    /\ DOMAIN instr.d # {}
    /\ Len(instr.sub) > 0

_is_mixed_instruction(instr) ==
    /\ IsDictInstr(instr)
    /\ "fields" \in DOMAIN instr.d
    /\ Len(instr.sub) > 0

_is_simple_instruction(instr) == DOMAIN instr.d # {}

\* the custom filter predicates a caller passes in
FilterFn(name, x) ==
    CASE name = "is_dict" -> IsMap(x)
      [] name = "is_str" -> IsStr(x)
      [] OTHER -> TRUE

(***************************************************************************)
(* Value processor                                                          *)
(***************************************************************************)
\* {field: value[field] for field in names if field in value}
Project(value, names) ==
    JMap([k \in {names[i] : i \in {j \in 1..Len(names) : HasKey(value, names[j])}}
            |-> value.v[k]])

_process_dict_value(value, instr) ==
    IF "fields" \in DOMAIN instr.d
    THEN LET fs == instr.d.fields
         IN  IF \E i \in 1..Len(fs) : fs[i].t = "dict"
             THEN Raise    \* a mapping is not hashable: `field in value` fails
             ELSE Project(value, [i \in 1..Len(fs) |-> fs[i].v])
    ELSE value

\* [x[target] for x in item[array_field] if isinstance(x, dict) and target in x]
WildcardValues(item, array_field, target_field) ==
    LET Has(x) == IsMap(x) /\ HasKey(x, target_field)
        kept == SelectSeq(item.v[array_field].v, Has)
    IN  JList([i \in 1..Len(kept) |-> kept[i].v[target_field]])

\* the clean name without the special case of "name"
CleanName_suffixed(array_field, target_field) ==
    array_field \o Underscore \o target_field

CleanName(array_field, target_field) ==
    IF target_field = kName THEN array_field
    ELSE array_field \o Underscore \o target_field

RECURSIVE NestedSpec(_, _, _)
\* the loop over the (field_name, subfields) pairs of one nested field spec
NestedSpec(item, pairs, extracted) ==
    IF pairs = <<>> THEN extracted
    ELSE LET fn == Head(pairs)[1]
             subfields == Head(pairs)[2]
             next == IF HasKey(item, fn) /\ IsMap(item.v[fn])
                     THEN Put(extracted, fn, Project(item.v[fn], subfields))
                     ELSE IF HasKey(item, fn)
                     THEN Put(extracted, fn, item.v[fn])
                     ELSE extracted
         IN  NestedSpec(item, Tail(pairs), next)

RECURSIVE FieldSpecs(_, _, _)
\* the loop over the field specs for one mapping element
FieldSpecs(item, specs, extracted) ==
    IF specs = <<>> THEN extracted
    ELSE LET spec == Head(specs)
             next ==
                IF spec.t = "dict" THEN NestedSpec(item, spec.v, extracted)
                ELSE IF StrIn(StarDot, spec.v)
                THEN LET parts == SplitOnce(spec.v, StarDot)
                     IN  IF HasKey(item, parts[1]) /\ IsList(item.v[parts[1]])
                         THEN Put(extracted, CleanName(parts[1], parts[2]),
                                  WildcardValues(item, parts[1], parts[2]))
                         ELSE extracted
                ELSE IF HasKey(item, spec.v)
                THEN Put(extracted, spec.v, item.v[spec.v])
                ELSE extracted
         IN  FieldSpecs(item, Tail(specs), next)

_extract_fields_from_array(array, fields) ==
    [i \in 1..Len(array) |->
        IF ~IsMap(array[i]) THEN array[i]
        ELSE FieldSpecs(array[i], fields, EmptyMap)]

\* _process_array_value cutting to the limit before the two filters
_process_array_value_limit_first(value, instr) ==
    LET Match(x) == IsStr(x) /\ ReSearch(instr.d.regex, x.v)
        Pred(x) == FilterFn(instr.d.filter, x)
        p1 == IF "limit" \in DOMAIN instr.d THEN SliceTo(value.v, instr.d.limit) ELSE value.v
        p2 == IF "regex" \in DOMAIN instr.d THEN SelectSeq(p1, Match) ELSE p1
        p3 == IF "filter" \in DOMAIN instr.d THEN SelectSeq(p2, Pred) ELSE p2
        p4 == IF "fields" \in DOMAIN instr.d
              THEN _extract_fields_from_array(p3, instr.d.fields) ELSE p3
    IN  JList(p4)

_process_array_value(value, instr) ==
    LET Match(x) == IsStr(x) /\ ReSearch(instr.d.regex, x.v)
        Pred(x) == FilterFn(instr.d.filter, x)
        p1 == IF "regex" \in DOMAIN instr.d THEN SelectSeq(value.v, Match) ELSE value.v
        p2 == IF "filter" \in DOMAIN instr.d THEN SelectSeq(p1, Pred) ELSE p1
        p3 == IF "limit" \in DOMAIN instr.d THEN SliceTo(p2, instr.d.limit) ELSE p2
        p4 == IF "fields" \in DOMAIN instr.d
              THEN _extract_fields_from_array(p3, instr.d.fields) ELSE p3
    IN  JList(p4)

\* _process_value dropping a scalar its directives were not made for
_process_value_drop(value, instr) ==
    IF ~IsDictInstr(instr) THEN value
    ELSE IF "regex" \in DOMAIN instr.d /\ IsStr(value)
            /\ ~ReSearch(instr.d.regex, value.v)
    THEN Null
    ELSE IF IsMap(value) THEN _process_dict_value(value, instr)
    ELSE IF IsList(value) THEN _process_array_value(value, instr)
    ELSE Null

_process_value(value, instr) ==
    IF ~IsDictInstr(instr) THEN value
    ELSE IF "regex" \in DOMAIN instr.d /\ IsStr(value)
            /\ ~ReSearch(instr.d.regex, value.v)
    THEN Null
    ELSE IF IsMap(value) THEN _process_dict_value(value, instr)
    ELSE IF IsList(value) THEN _process_array_value(value, instr)
    ELSE value

\* the wildcard array path of a top-level rule
\* the wildcard step returning the array's elements, not their field values
_extract_wildcard_path_whole(item, path, instr) ==
    IF ~StrIn(StarDot, path) THEN JmesSearch(path, item)
    ELSE LET array_path == SplitOnce(path, StarDot)[1]
         IN  IF ~HasKey(item, array_path) \/ ~IsList(item.v[array_path])
             THEN EmptyList
             ELSE item.v[array_path]

\* the wildcard step keeping the null field values of the elements
_extract_wildcard_path_nulls(item, path, instr) ==
    IF ~StrIn(StarDot, path) THEN JmesSearch(path, item)
    ELSE LET parts == SplitOnce(path, StarDot)
         IN  IF ~HasKey(item, parts[1]) \/ ~IsList(item.v[parts[1]])
             THEN EmptyList
             ELSE LET Dicts(x) == IsMap(x)
                      elems == SelectSeq(item.v[parts[1]].v, Dicts)
                  IN  JList([i \in 1..Len(elems) |-> Get(elems[i], parts[2])])

_extract_wildcard_path(item, path, instr) ==
    IF ~StrIn(StarDot, path) THEN JmesSearch(path, item)
    ELSE LET parts == SplitOnce(path, StarDot)
             array_path == parts[1]
             field_path == parts[2]
         IN  IF ~HasKey(item, array_path) \/ ~IsList(item.v[array_path])
             THEN EmptyList
             ELSE LET Dicts(x) == IsMap(x)
                      elems == SelectSeq(item.v[array_path].v, Dicts)
                      FieldValue(x) ==
                          IF StrIn(Dot, field_path) THEN JmesSearch(field_path, x)
                          ELSE Get(x, field_path)
                      Filtered(fv) ==
                          IF HasDirective(instr, "fields") /\ IsMap(fv)
                          THEN _process_dict_value(fv, instr)
                          ELSE fv
                      vals == [i \in 1..Len(elems) |-> FieldValue(elems[i])]
                      NotNull(y) == y # Null
                      kept == SelectSeq(vals, NotNull)
                  IN  JList([i \in 1..Len(kept) |-> Filtered(kept[i])])

\* _cleanup_nulls without the recursion: only the top level is pruned
_cleanup_nulls_shallow(obj) ==
    IF IsMap(obj)
    THEN JMap([k \in {j \in DOMAIN obj.v : obj.v[j] # Null} |-> obj.v[k]])
    ELSE IF IsList(obj)
    THEN LET NotNull(y) == y # Null
         IN  JList(SelectSeq(obj.v, NotNull))
    ELSE obj

RECURSIVE _cleanup_nulls(_)
_cleanup_nulls(obj) ==
    IF IsMap(obj)
    THEN JMap([k \in {j \in DOMAIN obj.v : obj.v[j] # Null} |-> _cleanup_nulls(obj.v[k])])
    ELSE IF IsList(obj)
    THEN LET NotNull(y) == y # Null
             kept == SelectSeq(obj.v, NotNull)
         IN  JList([i \in 1..Len(kept) |-> _cleanup_nulls(kept[i])])
    ELSE obj

(***************************************************************************)
(* Sharing.  The output holds some of the record's mappings by reference    *)
(* (output[k] = item[k] stores the object, not a copy).  Every such         *)
(* mapping sits in the output under the same key path as in the record, so  *)
(* the shared objects are named by a set of key paths, `alias`: the output  *)
(* at a path of alias, and everything below it, is the record's own object. *)
(* Lists and what they hold are never written to after they are built.      *)
(***************************************************************************)
IsPrefix(p, q) == Len(p) <= Len(q) /\ SubSeq(q, 1, Len(p)) = p

\* the object the output holds at path p belongs to the record
IsShared(al, p) == \E q \in al : IsPrefix(q, p)

\* output[...p] is rebound: what was shared at or below p no longer is
Rebind(al, p) == {q \in al : ~IsPrefix(p, q)}

RECURSIVE GetPath(_, _)
GetPath(m, p) == IF p = <<>> THEN m ELSE GetPath(Get(m, Head(p)), Tail(p))

RECURSIVE SetPath(_, _, _)
SetPath(m, p, x) ==
    IF p = <<>> THEN x
    ELSE Put(m, Head(p), SetPath(m.v[Head(p)], Tail(p), x))

\* the paths shared after output[...prefix] = _process_value(value, instr),
\* value being the record's object at prefix
SharedByValue(prefix, value, instr) ==
    IF ~IsMap(value) THEN {}
    ELSE IF HasDirective(instr, "fields")
    THEN LET produced == _process_dict_value(value, instr)
         IN  IF ~IsMap(produced) THEN {}
             ELSE {prefix \o <<k>> : k \in {j \in DOMAIN produced.v : IsMap(produced.v[j])}}
    ELSE {prefix}

(***************************************************************************)
(* Rule steps.  Each takes and returns a frame                              *)
(* [out |-> output mapping, item |-> the record, al |-> shared paths].      *)
(***************************************************************************)
Frame(out, item, al) == [out |-> out, item |-> item, al |-> al]

RECURSIVE RootFields(_, _, _)
RootFields(fr, item, fields) ==
    IF fields = <<>> THEN fr
    ELSE LET f == Head(fields)
         IN  IF f.t = "dict" THEN Frame(Raise, fr.item, fr.al)
             ELSE IF HasKey(item, f.v)
             THEN RootFields(
                    Frame(Put(fr.out, f.v, item.v[f.v]), fr.item,
                          Rebind(fr.al, <<f.v>>)
                            \cup (IF IsMap(item.v[f.v]) THEN {<<f.v>>} ELSE {})),
                    item, Tail(fields))
             ELSE RootFields(fr, item, Tail(fields))

\* the root fields nested under the key "@" of the output
_extract_root_fields_nested(fr, fields) ==
    Frame(Put(fr.out, At, RootFields(Frame(EmptyMap, fr.item, fr.al), fr.item, fields).out),
          fr.item, fr.al)

_extract_root_fields(fr, fields) == RootFields(fr, fr.item, fields)

_process_simple_instruction(fr, path, instr) ==
    IF ~HasKey(fr.item, path) THEN fr
    ELSE LET value == fr.item.v[path]
         IN  Frame(Put(fr.out, path, _process_value(value, instr)), fr.item,
                   Rebind(fr.al, <<path>>) \cup SharedByValue(<<path>>, value, instr))

_extract_wildcard_field(item, wildcard_path, target) ==
    LET parts == SplitOnce(wildcard_path, StarDot)
    IN  IF HasKey(item, parts[1]) /\ IsList(item.v[parts[1]])
        THEN Put(target, CleanName(parts[1], parts[2]),
                 WildcardValues(item, parts[1], parts[2]))
        ELSE target

_extract_fields_from_object(item, sub_path, fields, target) ==
    LET source_obj == item.v[sub_path]
    IN  IF IsMap(source_obj) THEN Put(target, sub_path, Project(source_obj, fields))
        ELSE Put(target, sub_path, source_obj)

_apply_sub_rule_to_item(item, sub_path, sub_instr, target) ==
    IF StrIn(StarDot, sub_path) THEN _extract_wildcard_field(item, sub_path, target)
    ELSE IF ~HasKey(item, sub_path) THEN target
    ELSE IF sub_instr.t = "dict"
    THEN Put(target, sub_path, _process_value(item.v[sub_path], sub_instr))
    ELSE IF sub_instr.t = "list"
    THEN _extract_fields_from_object(item, sub_path, sub_instr.v, target)
    ELSE IF sub_instr.t = "true"
    THEN Put(target, sub_path, item.v[sub_path])
    ELSE target

\* the shared paths after _apply_sub_rule_to_item wrote into output[parent]
SharedBySubRule(al, parent, item, sub_path, sub_instr) ==
    IF StrIn(StarDot, sub_path)
    THEN LET parts == SplitOnce(sub_path, StarDot)
         IN  IF HasKey(item, parts[1]) /\ IsList(item.v[parts[1]])
             THEN Rebind(al, <<parent, CleanName(parts[1], parts[2])>>)
             ELSE al
    ELSE IF ~HasKey(item, sub_path) THEN al
    ELSE LET at == <<parent, sub_path>>
             value == item.v[sub_path]
         IN  IF sub_instr.t = "dict"
             THEN Rebind(al, at) \cup SharedByValue(at, value, sub_instr)
             ELSE IF sub_instr.t = "list"
             THEN Rebind(al, at)
                    \cup (IF IsMap(value)
                          THEN {at \o <<k>> : k \in {j \in DOMAIN Project(value, sub_instr.v).v :
                                                        IsMap(value.v[j])}}
                          ELSE {})
             ELSE IF sub_instr.t = "true"
             THEN Rebind(al, at) \cup (IF IsMap(value) THEN {at} ELSE {})
             ELSE al

\* dict(x): a copy of a mapping; the empty string and the empty list convert
\* to the empty mapping, any other scalar or string raises
DictOf(x) ==
    IF IsMap(x) THEN x
    ELSE IF x = JStr(<<>>) \/ x = EmptyList THEN EmptyMap
    ELSE Raise

\* _merge_array_output keeping the new items beyond the existing list's end
_merge_array_output_extend(out, parent_path, new_items) ==
    IF HasKey(out, parent_path) /\ IsList(out.v[parent_path])
    THEN LET existing == out.v[parent_path].v
             n == IF Len(existing) >= Len(new_items) THEN Len(existing) ELSE Len(new_items)
         IN  Put(out, parent_path,
                 JList([i \in 1..n |->
                    IF i <= Len(existing) /\ i <= Len(new_items)
                       /\ IsMap(existing[i]) /\ IsMap(new_items[i])
                    THEN JMap([k \in (DOMAIN existing[i].v) \cup (DOMAIN new_items[i].v) |->
                                 IF k \in DOMAIN new_items[i].v THEN new_items[i].v[k]
                                 ELSE existing[i].v[k]])
                    ELSE IF i <= Len(new_items) THEN new_items[i]
                    ELSE existing[i]]))
    ELSE Put(out, parent_path, JList(new_items))

_merge_array_output(out, parent_path, new_items) ==
    IF HasKey(out, parent_path) /\ IsList(out.v[parent_path])
    THEN LET existing == out.v[parent_path].v
         IN  Put(out, parent_path,
                 JList([i \in 1..Len(existing) |->
                    IF i <= Len(new_items) /\ IsMap(existing[i]) /\ IsMap(new_items[i])
                    THEN JMap([k \in (DOMAIN existing[i].v) \cup (DOMAIN new_items[i].v) |->
                                 IF k \in DOMAIN new_items[i].v THEN new_items[i].v[k]
                                 ELSE existing[i].v[k]])
                    ELSE IF i <= Len(new_items) THEN new_items[i]
                    ELSE existing[i]]))
    ELSE Put(out, parent_path, JList(new_items))

_process_array_sub_rule(array_value, sub_path, sub_instr, out, parent_path) ==
    LET new_items ==
            [i \in 1..Len(array_value) |->
                IF IsMap(array_value[i])
                THEN LET new_item ==
                            IF HasKey(out, parent_path) /\ IsList(out.v[parent_path])
                               /\ i <= Len(out.v[parent_path].v)
                            THEN DictOf(out.v[parent_path].v[i])
                            ELSE EmptyMap
                     IN  IF new_item = Raise THEN Raise
                         ELSE _apply_sub_rule_to_item(array_value[i], sub_path, sub_instr, new_item)
                ELSE array_value[i]]
    IN  IF \E i \in 1..Len(new_items) : new_items[i] = Raise THEN Raise
        ELSE _merge_array_output(out, parent_path, new_items)

\* _process_dict_sub_rule starting from an empty mapping at the output key
_process_dict_sub_rule_fresh(dict_value, sub_path, sub_instr, out, parent_path) ==
    Put(out, parent_path,
        _apply_sub_rule_to_item(dict_value, sub_path, sub_instr, EmptyMap))

_process_dict_sub_rule(dict_value, sub_path, sub_instr, out, parent_path) ==
    LET out1 == IF HasKey(out, parent_path) THEN out ELSE Put(out, parent_path, EmptyMap)
    IN  Put(out1, parent_path,
            _apply_sub_rule_to_item(dict_value, sub_path, sub_instr, out1.v[parent_path]))

_process_sub_rule(fr, parent_value, sub_path, sub_instr, parent_path) ==
    IF Raised(fr.out) THEN Frame(Raise, fr.item, fr.al)
    ELSE IF IsList(parent_value)
    THEN Frame(_process_array_sub_rule(parent_value.v, sub_path, sub_instr, fr.out, parent_path),
               fr.item, fr.al)
    ELSE IF IsMap(parent_value)
    THEN Frame(_process_dict_sub_rule(parent_value, sub_path, sub_instr, fr.out, parent_path),
               fr.item,
               SharedBySubRule(fr.al, parent_path, parent_value, sub_path, sub_instr))
    ELSE fr

RECURSIVE SubRules(_, _, _, _)
\* the loop over the sub-rules of a mixed instruction
SubRules(fr, path, subs, item) ==
    IF subs = <<>> THEN fr
    ELSE SubRules(_process_sub_rule(fr, item.v[path], Head(subs)[1], Head(subs)[2], path),
                  path, Tail(subs), item)

\* the mixed instruction applying only the last of its sub-rules
_process_mixed_instruction_last(fr, path, instr) ==
    IF ~HasKey(fr.item, path) THEN fr
    ELSE SubRules(_process_simple_instruction(fr, path, instr), path,
                  <<instr.sub[Len(instr.sub)]>>, fr.item)

_process_mixed_instruction(fr, path, instr) ==
    IF ~HasKey(fr.item, path) THEN fr
    ELSE SubRules(_process_simple_instruction(fr, path, instr), path, instr.sub, fr.item)

RECURSIVE AssignIn(_, _, _)
\* the walk of _assign from the mapping cur along keys
AssignIn(cur, keys, value) ==
    IF ~IsMap(cur) THEN cur
    ELSE IF Len(keys) = 1 THEN Put(cur, keys[1], value)
    ELSE LET child == IF HasKey(cur, keys[1]) THEN cur.v[keys[1]] ELSE EmptyMap
         IN  Put(cur, keys[1], AssignIn(child, Tail(keys), value))

RECURSIVE AssignReaches(_, _)
\* the walk ends at a mapping, so the value is stored
AssignReaches(cur, keys) ==
    /\ IsMap(cur)
    /\ \/ Len(keys) = 1
       \/ ~HasKey(cur, keys[1])
       \/ AssignReaches(cur.v[keys[1]], Tail(keys))

\* _assign building the mappings above the last key anew on every call
_assign_replace(fr, path, value, fromItem) ==
    LET keys == StrSplit(StrRemove(path, Star), Dot)
        out1 == IF Len(keys) = 1 THEN Put(fr.out, keys[1], value)
                ELSE Put(fr.out, keys[1], AssignIn(EmptyMap, Tail(keys), value))
        al1 == Rebind(fr.al, <<keys[1]>>)
                 \cup (IF fromItem /\ IsMap(value) THEN {keys} ELSE {})
    IN  Frame(out1, fr.item, al1)

\* fromItem: the value is the record's own object at this path
_assign(fr, path, value, fromItem) ==
    LET keys == StrSplit(StrRemove(path, Star), Dot)
        out1 == AssignIn(fr.out, keys, value)
        through == {j \in 1..(Len(keys) - 1) : IsShared(fr.al, SubSeq(keys, 1, j))}
        first == CHOOSE j \in through : \A i \in through : j <= i
        root == SubSeq(keys, 1, first)
        item1 == IF through = {} THEN fr.item
                 ELSE SetPath(fr.item, root, GetPath(out1, root))
        al1 == IF ~AssignReaches(fr.out, keys) THEN fr.al
               ELSE Rebind(fr.al, keys)
                      \cup (IF fromItem /\ IsMap(value) THEN {keys} ELSE {})
    IN  Frame(out1, item1, al1)

\* the paths jmespath.compile()d at construction
Compiled(rs) ==
    {rs[i][1] : i \in {j \in 1..Len(rs) :
                          rs[j][1] \notin {Dot, At} /\ ~_is_mixed_instruction(rs[j][2])}}

\* the found value tested for truth, not against None
_process_path_extraction_falsy(fr, path, instr, compiled) ==
    IF path \notin compiled THEN fr
    ELSE LET found == IF StrIn(Star, path)
                      THEN _extract_wildcard_path(fr.item, path, instr)
                      ELSE JmesSearch(path, fr.item)
             falsy == found \in {Null, JBool(FALSE), JNum(0), JStr(<<>>), EmptyMap, EmptyList}
         IN  IF falsy THEN fr
             ELSE _assign(fr, path, _process_value(found, instr), ~StrIn(Star, path))

_process_path_extraction(fr, path, instr, compiled) ==
    IF path \notin compiled THEN fr
    ELSE LET found == IF StrIn(Star, path)
                      THEN _extract_wildcard_path(fr.item, path, instr)
                      ELSE JmesSearch(path, fr.item)
             useDefault == found = Null /\ HasDirective(instr, "default")
             value == IF useDefault THEN instr.d.default ELSE found
         IN  IF found = Null /\ ~useDefault THEN fr
             ELSE _assign(fr, path, _process_value(value, instr),
                          ~useDefault /\ ~StrIn(Star, path))

\* which branch of _process_rule takes the rule
RuleKind(path, instr) ==
    IF path = At /\ HasDirective(instr, "fields") THEN "root"
    ELSE IF _is_mixed_instruction(instr) THEN "mixed"
    ELSE IF IsDictInstr(instr) /\ _is_simple_instruction(instr) THEN "simple"
    ELSE "path"

\* _process_rule storing the value under the string a string instruction gives
_process_rule_renamed(fr, path, instr, compiled) ==
    IF instr.t = "str"
    THEN LET one == _process_path_extraction(Frame(EmptyMap, fr.item, {}), path, instr, compiled)
             keys == StrSplit(StrRemove(path, Star), Dot)
         IN  IF one.out = EmptyMap THEN fr
             ELSE Frame(Put(fr.out, instr.v, GetPath(one.out, keys)), fr.item, fr.al)
    ELSE CASE RuleKind(path, instr) = "root" -> _extract_root_fields(fr, instr.d.fields)
           [] RuleKind(path, instr) = "mixed" -> _process_mixed_instruction(fr, path, instr)
           [] RuleKind(path, instr) = "simple" -> _process_simple_instruction(fr, path, instr)
           [] OTHER -> _process_path_extraction(fr, path, instr, compiled)

_process_rule(fr, path, instr, compiled) ==
    CASE RuleKind(path, instr) = "root" -> _extract_root_fields(fr, instr.d.fields)
      [] RuleKind(path, instr) = "mixed" -> _process_mixed_instruction(fr, path, instr)
      [] RuleKind(path, instr) = "simple" -> _process_simple_instruction(fr, path, instr)
      [] OTHER -> _process_path_extraction(fr, path, instr, compiled)

RECURSIVE RunRules(_, _, _)
\* the loop of _extract_one over the rules rs, stopping at an exception
RunRules(fr, rs, compiled) ==
    IF rs = <<>> \/ Raised(fr.out) THEN fr
    ELSE RunRules(_process_rule(fr, Head(rs)[1], Head(rs)[2], compiled), Tail(rs), compiled)

\* _extract_one on a record of its own
_extract_one(rs, item) ==
    LET fr == RunRules(Frame(EmptyMap, item, {}), rs, Compiled(rs))
    IN  IF Raised(fr.out) THEN Raise ELSE _cleanup_nulls(fr.out)

(***************************************************************************)
(* Inputs: the keys, records and rules the calls are drawn from             *)
(***************************************************************************)
kA == <<"a">>
kB == <<"b">>
kC == <<"c">>
kP == <<"p">>
kU == <<"u">>
sTom == <<"T", "o", "m">>
sBan == <<"B", "a", "n">>
sX == <<"x">>
sY == <<"y">>
pAn == <<"a", "n">>

Rec1(k1, x1) == JMap([k \in {k1} |-> x1])
Rec2(k1, x1, k2, x2) == Put(Rec1(k1, x1), k2, x2)
Rec3(k1, x1, k2, x2, k3, x3) == Put(Rec2(k1, x1, k2, x2), k3, x3)
Rec4(k1, x1, k2, x2, k3, x3, k4, x4) == Put(Rec3(k1, x1, k2, x2, k3, x3), k4, x4)
Rec5(k1, x1, k2, x2, k3, x3, k4, x4, k5, x5) ==
    Put(Rec4(k1, x1, k2, x2, k3, x3, k4, x4), k5, x5)

RecA ==
    Rec5(kName, JStr(sTom),
         kU, JNum(0),
         kB, Rec3(kU, JNum(1), kName, Null, kC, Rec1(kU, JStr(sX))),
         kA, JList(<<Rec1(kU, JStr(sX)), Rec2(kName, JStr(sY), kU, Null), JNum(7)>>),
         kP, JList(<<Rec3(kName, JStr(sTom), kU, Null,
                          kA, JList(<<Rec1(kU, JStr(sX)), Rec1(kName, JStr(sY))>>)),
                     Rec3(kName, JStr(sBan), kA, EmptyList, kB, Rec1(kU, JNum(2))),
                     Rec1(kU, JNum(3))>>))

RecB ==
    Rec5(kName, JStr(sBan),
         kU, JBool(FALSE),
         kB, Null,
         kA, JList(<<Rec2(kU, JStr(sY), kName, JStr(sX))>>),
         kP, EmptyList)

RecC ==
    Rec4(kName, JStr(<<>>),
         kB, Rec2(kName, Null, kC, JList(<<Null, JNum(1)>>)),
         kA, Rec1(kU, JNum(1)),
         kP, JList(<<Rec1(kName, JStr(sX)), JStr(sTom), Null>>))

Records == {RecA, RecB, RecC}
ListRecords == {RecB, RecC}

\* the sequences over S of length at most n
RECURSIVE SeqsUpTo(_, _)
SeqsUpTo(S, n) ==
    IF n = 0 THEN {<<>>}
    ELSE LET shorter == SeqsUpTo(S, n - 1)
         IN  shorter \cup {Append(q, x) : q \in shorter, x \in S}

Inputs == Records \cup {JList(q) : q \in SeqsUpTo(ListRecords, MaxRecs)}

Fields1(f1) == <<FName(f1)>>
Fields2(f1, f2) == <<FName(f1), FName(f2)>>
Fields3(f1, f2, f3) == <<FName(f1), FName(f2), FName(f3)>>

Pool ==
    { <<kName, ITrue>>,
      <<kU, ITrue>>,
      <<kB, ITrue>>,
      <<kB \o Dot \o kU, ITrue>>,
      <<kB \o Dot \o kC, ITrue>>,
      <<kA \o StarDot \o kU, ITrue>>,
      <<kA \o StarDot \o kName, ITrue>>,
      <<kP \o StarDot \o kName, IStr(kC)>>,
      <<kName, IDict([regex |-> pAn], <<>>)>>,
      <<kB, IDict([fields |-> Fields2(kU, kName)], <<>>)>>,
      <<kP, IDict([limit |-> 2, fields |-> Fields2(kName, kU)], <<>>)>>,
      <<kA, IDict([limit |-> 0, fields |-> Fields1(kU)], <<>>)>>,
      <<kP, IDict([fields |-> Fields1(kName)],
                  << <<kA \o StarDot \o kU, ITrue>>, <<kB, ITrue>> >>)>>,
      <<kP, IDict([fields |-> Fields2(kName, kB)],
                  << <<kU, ITrue>>, <<kA \o StarDot \o kName, ITrue>> >>)>>,
      <<At, IDict([fields |-> Fields3(kName, kU, kC)], <<>>)>>,
      <<At, IDict([fields |-> Fields1(kB), limit |-> 1], << <<kName, ITrue>> >>)>>,
      <<At, ITrue>> }

\* the rule sets over a pool: sequences of rules with distinct keys
DistinctKeys(rs) == \A i, j \in 1..Len(rs) : i # j => rs[i][1] # rs[j][1]
RuleSets(pool) == {rs \in SeqsUpTo(pool, MaxRules) : DistinctKeys(rs)}

(***************************************************************************)
(* The extractor                                                            *)
(***************************************************************************)
\* no model converter was given to the constructor
NoModel == [t |-> "none"]

\* the caller holds no input object from an earlier call
NoSeen == [held |-> FALSE, cur |-> FALSE, now |-> Null, res |-> Null]

\* the locals of a call of extract() that has not started
IdleCall ==
    [data0 |-> Null, data |-> Null, pc |-> "idle", idx |-> 0, r |-> 0,
     output |-> EmptyMap, alias |-> {}, results |-> <<>>, result |-> Null,
     convlog |-> <<>>]

InitWith(pool) ==
    /\ rules \in RuleSets(pool)
    /\ data0 = Null
    /\ data = Null
    /\ pc = "idle"
    /\ idx = 0
    /\ r = 0
    /\ output = EmptyMap
    /\ alias = {}
    /\ results = <<>>
    /\ result = Null
    /\ model = NoModel
    /\ convlog = <<>>
    /\ seen = NoSeen
    /\ other = IdleCall

Init == InitWith(Pool)

\* the records of the call's argument, and the one being extracted
RecordsOf(d) == IF IsList(d) THEN d.v ELSE <<d>>
Item == RecordsOf(data)[idx]
WithItem(d, i, item) ==
    IF IsList(d) THEN JList([d.v EXCEPT ![i] = item]) ELSE item

\* extract(d) collecting the outputs in a list the extractor keeps between calls
Enter_keep(d) ==
    /\ pc \in {"idle", "done", "raised"}
    /\ data0' = d
    /\ data' = d
    /\ pc' = "rules"
    /\ idx' = 1
    /\ r' = 1
    /\ output' = EmptyMap
    /\ alias' = {}
    /\ results' = results
    /\ result' = Null
    /\ convlog' = <<>>
    /\ UNCHANGED <<rules, model>>

\* extract(d) is entered by a caller that is in no call
Enter(d) ==
    /\ pc \in {"idle", "done", "raised"}
    /\ data0' = d
    /\ data' = d
    /\ pc' = "rules"
    /\ idx' = 1
    /\ r' = 1
    /\ output' = EmptyMap
    /\ alias' = {}
    /\ results' = <<>>
    /\ result' = Null
    /\ convlog' = <<>>
    /\ UNCHANGED <<rules, model>>

\* extract(data) is entered on an input of its own
Call ==
    /\ \E d \in Inputs : Enter(d)
    /\ UNCHANGED <<seen, other>>

\* one iteration of the loop of _extract_one: _process_rule on rule r
RuleStep(kind) ==
    /\ pc = "rules"
    /\ idx <= Len(RecordsOf(data))
    /\ r <= Len(rules)
    /\ RuleKind(rules[r][1], rules[r][2]) = kind
    /\ LET fr == _process_rule(Frame(output, Item, alias), rules[r][1], rules[r][2],
                               Compiled(rules))
       IN  IF Raised(fr.out)
           THEN /\ pc' = "raised"
                /\ UNCHANGED <<r, output, alias, data>>
           ELSE /\ pc' = pc
                /\ r' = r + 1
                /\ output' = fr.out
                /\ alias' = fr.al
                /\ data' = WithItem(data, idx, fr.item)
    /\ UNCHANGED <<rules, data0, idx, results, result, model, convlog, seen, other>>

ExtractRootFields == RuleStep("root")
ProcessMixedInstruction == RuleStep("mixed")
ProcessSimpleInstruction == RuleStep("simple")
ProcessPathExtraction == RuleStep("path")

\* FinishRecord with the output mapping carried over to the next record
FinishRecord_carry ==
    /\ pc = "rules"
    /\ idx <= Len(RecordsOf(data))
    /\ r > Len(rules)
    /\ results' = Append(results, _cleanup_nulls(output))
    /\ idx' = idx + 1
    /\ r' = 1
    /\ UNCHANGED <<rules, data0, data, pc, result, output, alias>>
    /\ UNCHANGED <<model, convlog, seen, other>>

\* the end of _extract_one: the record's output is pruned and collected
FinishRecord ==
    /\ pc = "rules"
    /\ idx <= Len(RecordsOf(data))
    /\ r > Len(rules)
    /\ results' = Append(results, _cleanup_nulls(output))
    /\ idx' = idx + 1
    /\ r' = 1
    /\ output' = EmptyMap
    /\ alias' = {}
    /\ UNCHANGED <<rules, data0, data, pc, result, model, convlog, seen, other>>

\* self.model(**item): the converter builds an object from the mapping, or
\* fails on a mapping without one of its required fields
ModelCall(m, item) ==
    IF m.required \subseteq DOMAIN item.v
    THEN [t |-> "obj", v |-> item]
    ELSE Raise

\* _convert_model falling back to the plain data when the converter fails
_convert_model_fallback(m, d) ==
    IF m = NoModel THEN [out |-> d, log |-> <<>>]
    ELSE IF IsList(d)
    THEN LET failing == {i \in 1..Len(d.v) : ModelCall(m, d.v[i]) = Raise}
             last == IF failing = {} THEN Len(d.v)
                     ELSE CHOOSE i \in failing : \A j \in failing : i <= j
         IN  [out |-> IF failing = {}
                      THEN JList([i \in 1..Len(d.v) |-> ModelCall(m, d.v[i])])
                      ELSE d,
              log |-> SubSeq(d.v, 1, last)]
    ELSE [out |-> IF ModelCall(m, d) = Raise THEN d ELSE ModelCall(m, d),
          log |-> <<d>>]

\* _convert_model: what it returns or raises (out), and the arguments of the
\* converter calls it made, in order (log)
_convert_model(m, d) ==
    IF m = NoModel THEN [out |-> d, log |-> <<>>]
    ELSE IF IsList(d)
    THEN LET failing == {i \in 1..Len(d.v) : ModelCall(m, d.v[i]) = Raise}
             last == IF failing = {} THEN Len(d.v)
                     ELSE CHOOSE i \in failing : \A j \in failing : i <= j
         IN  [out |-> IF failing = {}
                      THEN JList([i \in 1..Len(d.v) |-> ModelCall(m, d.v[i])])
                      ELSE Raise,
              log |-> SubSeq(d.v, 1, last)]
    ELSE [out |-> ModelCall(m, d), log |-> <<d>>]

\* the end of extract: the collected result goes through _convert_model
Return ==
    /\ pc = "rules"
    /\ idx > Len(RecordsOf(data))
    /\ LET collected == IF IsList(data) THEN JList(results) ELSE results[1]
           cm == _convert_model(model, collected)
       IN  /\ convlog' = cm.log
           /\ IF cm.out = Raise
              THEN pc' = "raised" /\ result' = result
              ELSE pc' = "done" /\ result' = cm.out
    /\ UNCHANGED <<rules, data0, data, idx, r, output, alias, results, model, seen, other>>

Next ==
    \/ Call
    \/ ExtractRootFields
    \/ ProcessMixedInstruction
    \/ ProcessSimpleInstruction
    \/ ProcessPathExtraction
    \/ FinishRecord
    \/ Return

Spec == Init /\ [][Next]_vars

(***************************************************************************)
(* Vocabulary of the properties                                             *)
(***************************************************************************)
\* the records given to the finished call and the outputs returned for them
InRecs == RecordsOf(data0)
OutRecs == RecordsOf(result)

\* the output locations a rule may write: key paths from the output root
WriteKeys(rule) ==
    LET kind == RuleKind(rule[1], rule[2])
    IN  IF kind = "root"
        THEN {<<rule[2].d.fields[i].v>> : i \in 1..Len(rule[2].d.fields)}
        ELSE IF kind \in {"mixed", "simple"} THEN {<<rule[1]>>}
        ELSE IF rule[1] \in {Dot, At} THEN {}
        ELSE {StrSplit(StrRemove(rule[1], Star), Dot)}

\* no other rule of the rule set writes at, above or below the key path keys
Alone(i, keys) ==
    \A j \in 1..Len(rules) : j # i =>
        \A q \in WriteKeys(rules[j]) : ~IsPrefix(q, keys) /\ ~IsPrefix(keys, q)

\* a plain field name: no dot, no wildcard, not the root mark
PlainKey(k) == ~StrIn(Dot, k) /\ ~StrIn(Star, k) /\ k # At /\ k # <<>>

RECURSIVE HasNull(_)
\* a null is a value of a mapping or an element of a sequence somewhere in x
HasNull(x) ==
    CASE x.t = "map" -> \E k \in DOMAIN x.v : x.v[k] = Null \/ HasNull(x.v[k])
      [] x.t = "list" -> \E i \in 1..Len(x.v) : x.v[i] = Null \/ HasNull(x.v[i])
      [] OTHER -> FALSE

(***************************************************************************)
(* C1  Null erasure: the value extract() returns holds no null, neither as  *)
(* the value of a key of a mapping nor as an element of a sequence, at any  *)
(* depth.                                                                   *)
(***************************************************************************)
C1_NullErasure == pc = "done" => result # Null /\ ~HasNull(result)

\* a call returned the value of a record's mapping that held a null
C1_Witness ==
    /\ pc = "done"
    /\ ~IsList(data0)
    /\ \E i \in 1..Len(rules) :
        /\ rules[i][2] = ITrue
        /\ PlainKey(rules[i][1])
        /\ HasKey(data0, rules[i][1])
        /\ HasNull(data0.v[rules[i][1]])
        /\ HasKey(result, rules[i][1])

(***************************************************************************)
(* C2  Sequence root: extract() on a sequence of n records returns a        *)
(* sequence of n outputs in input order, output i being what extract()      *)
(* returns for record i alone; extract() on a single mapping returns a      *)
(* mapping, never a sequence.                                               *)
(***************************************************************************)
C2_SequenceRoot ==
    pc = "done" =>
        IF IsList(data0)
        THEN /\ IsList(result)
             /\ Len(result.v) = Len(data0.v)
             /\ \A i \in 1..Len(data0.v) : result.v[i] = _extract_one(rules, data0.v[i])
        ELSE IsMap(result)

\* a call on two different records returned two different outputs
C2_Witness ==
    /\ pc = "done"
    /\ IsList(data0)
    /\ Len(data0.v) = 2
    /\ data0.v[1] # data0.v[2]
    /\ Len(result.v) = 2
    /\ result.v[1] # result.v[2]
    /\ result.v[1] # EmptyMap

RECURSIVE Pruned(_)
\* x with every null mapping value and null sequence element removed
Pruned(x) ==
    CASE x.t = "map" ->
            JMap([k \in {j \in DOMAIN x.v : x.v[j] # Null} |-> Pruned(x.v[k])])
      [] x.t = "list" ->
            LET NotNull(y) == y # Null
                kept == SelectSeq(x.v, NotNull)
            IN  JList([i \in 1..Len(kept) |-> Pruned(kept[i])])
      [] OTHER -> x

\* the values of field S of the mapping elements of a sequence that have S
ElementValues(seq, S) ==
    LET Has(x) == IsMap(x) /\ HasKey(x, S)
        kept == SelectSeq(seq, Has)
    IN  [j \in 1..Len(kept) |-> kept[j].v[S]]

\* a rule is being applied to record idx, rules 1..r-1 are done
Working == pc = "rules" /\ idx <= Len(InRecs)

(***************************************************************************)
(* C3  Field present (as claimed): for a rule {k: true} on a plain key k    *)
(* that no other rule addresses, the returned output has key k with         *)
(* record[k] unchanged when record[k] exists and is not null, and has no    *)
(* key k otherwise.                                                         *)
(***************************************************************************)
C3Rule(i) ==
    /\ rules[i][2] = ITrue
    /\ PlainKey(rules[i][1])
    /\ Alone(i, <<rules[i][1]>>)

C3_FieldUnchanged ==
    pc = "done" =>
        \A i \in 1..Len(rules), n \in 1..Len(InRecs) :
            C3Rule(i) =>
                LET k == rules[i][1]
                    rec == InRecs[n]
                    out == OutRecs[n]
                IN  IF HasKey(rec, k) /\ rec.v[k] # Null
                    THEN HasKey(out, k) /\ out.v[k] = rec.v[k]
                    ELSE ~HasKey(out, k)

(***************************************************************************)
(* C3  Field present (amended): as above, but the value under k is          *)
(* record[k] with the nulls inside it pruned at every depth; it equals      *)
(* record[k] whenever record[k] holds no null (false, 0 and the empty       *)
(* string included).                                                        *)
(***************************************************************************)
C3_FieldPruned ==
    pc = "done" =>
        \A i \in 1..Len(rules), n \in 1..Len(InRecs) :
            C3Rule(i) =>
                LET k == rules[i][1]
                    rec == InRecs[n]
                    out == OutRecs[n]
                IN  IF HasKey(rec, k) /\ rec.v[k] # Null
                    THEN /\ HasKey(out, k)
                         /\ out.v[k] = Pruned(rec.v[k])
                         /\ (~HasNull(rec.v[k]) => out.v[k] = rec.v[k])
                    ELSE ~HasKey(out, k)

\* a falsy value was kept, and a mapping holding a null was returned pruned
C3_Witness ==
    /\ pc = "done"
    /\ ~IsList(data0)
    /\ \E i \in 1..Len(rules) :
        /\ C3Rule(i)
        /\ HasKey(data0, rules[i][1])
        /\ data0.v[rules[i][1]] \in {JNum(0), JBool(FALSE), JStr(<<>>)}
        /\ HasKey(result, rules[i][1])
    /\ \E i \in 1..Len(rules) :
        /\ C3Rule(i)
        /\ HasKey(data0, rules[i][1])
        /\ IsMap(data0.v[rules[i][1]])
        /\ HasKey(result, rules[i][1])
        /\ result.v[rules[i][1]] # data0.v[rules[i][1]]

\* the key a sub-rule writes in the element's output mapping
SubKey(sub) ==
    IF StrIn(StarDot, sub[1])
    THEN CleanName(SplitOnce(sub[1], StarDot)[1], SplitOnce(sub[1], StarDot)[2])
    ELSE sub[1]

RECURSIVE ApplyAll(_, _, _)
\* the sub-rules subs applied one after the other to the element e
ApplyAll(e, subs, acc) ==
    IF subs = <<>> THEN acc
    ELSE ApplyAll(e, Tail(subs), _apply_sub_rule_to_item(e, Head(subs)[1], Head(subs)[2], acc))

\* record[p] is a sequence of mappings
SeqOfMaps(rec, p) ==
    /\ HasKey(rec, p)
    /\ IsList(rec.v[p])
    /\ \A j \in 1..Len(rec.v[p].v) : IsMap(rec.v[p].v[j])

(***************************************************************************)
(* C4  Mixed-instruction merge: for a mixed instruction {fields: F,         *)
(* sub-rules} without regex, filter or limit at a key p that no other rule  *)
(* addresses, and record[p] a sequence of mappings, output[p] is a sequence *)
(* of the same length whose element j holds the fields of F present in      *)
(* record[p][j] and the result of every sub-rule applied to record[p][j]:   *)
(* a sub-rule adds its key and discards nothing written under other keys.   *)
(* The returned output holds the same elements with their nulls pruned.     *)
(***************************************************************************)
C4Rule(i) ==
    /\ _is_mixed_instruction(rules[i][2])
    /\ DOMAIN rules[i][2].d = {"fields"}
    /\ PlainKey(rules[i][1])
    /\ Alone(i, <<rules[i][1]>>)

\* element e of record[p] as the mixed instruction (F, subs) leaves it in out
C4Element(e, out, F, subs) ==
    /\ IsMap(out)
    /\ out = ApplyAll(e, subs, FieldSpecs(e, F, EmptyMap))
    /\ \A f \in 1..Len(F) :
          (/\ F[f].t = "str"
           /\ HasKey(e, F[f].v)
           /\ \A q \in 1..Len(subs) : SubKey(subs[q]) # F[f].v)
          => HasKey(out, F[f].v) /\ out.v[F[f].v] = e.v[F[f].v]
    /\ \A q \in 1..Len(subs) :
          LET res == _apply_sub_rule_to_item(e, subs[q][1], subs[q][2], EmptyMap)
          IN  \A k \in DOMAIN res.v :
                 (\A q2 \in (q + 1)..Len(subs) : SubKey(subs[q2]) # k)
                 => HasKey(out, k) /\ out.v[k] = res.v[k]

C4_MixedMerge ==
    /\ Working =>
        \A i \in 1..(r - 1) :
            (C4Rule(i) /\ SeqOfMaps(InRecs[idx], rules[i][1])) =>
                LET p == rules[i][1]
                    elems == InRecs[idx].v[p].v
                IN  /\ HasKey(output, p)
                    /\ IsList(output.v[p])
                    /\ Len(output.v[p].v) = Len(elems)
                    /\ \A j \in 1..Len(elems) :
                          C4Element(elems[j], output.v[p].v[j],
                                    rules[i][2].d.fields, rules[i][2].sub)
    /\ pc = "done" =>
        \A i \in 1..Len(rules), n \in 1..Len(InRecs) :
            (C4Rule(i) /\ SeqOfMaps(InRecs[n], rules[i][1])) =>
                LET p == rules[i][1]
                    elems == InRecs[n].v[p].v
                    out == OutRecs[n]
                IN  /\ HasKey(out, p)
                    /\ IsList(out.v[p])
                    /\ Len(out.v[p].v) = Len(elems)
                    /\ \A j \in 1..Len(elems) :
                          out.v[p].v[j] =
                            Pruned(ApplyAll(elems[j], rules[i][2].sub,
                                            FieldSpecs(elems[j], rules[i][2].d.fields, EmptyMap)))

\* an element of the returned list holds a projected field next to the keys
\* of two sub-rules
C4_Witness ==
    /\ pc = "done"
    /\ ~IsList(data0)
    /\ \E i \in 1..Len(rules) :
        /\ C4Rule(i)
        /\ SeqOfMaps(data0, rules[i][1])
        /\ Len(rules[i][2].sub) = 2
        /\ \E j \in 1..Len(result.v[rules[i][1]].v) :
              LET el == result.v[rules[i][1]].v[j]
              IN  /\ HasKey(el, rules[i][2].d.fields[1].v)
                  /\ HasKey(el, SubKey(rules[i][2].sub[1]))
                  /\ HasKey(el, SubKey(rules[i][2].sub[2]))

(***************************************************************************)
(* C5  Wildcard key naming (as claimed): a top-level rule A[*].S with       *)
(* instruction true, whose locations no other rule addresses, puts the list of the elements' S values directly under  *)
(* one top-level key: A when S is "name", A_S otherwise.                    *)
(***************************************************************************)
\* rule i is A[*].S: true, on plain names A and S, alone at its location
C5Rule(i) ==
    /\ rules[i][2] = ITrue
    /\ StrIn(StarDot, rules[i][1])
    /\ PlainKey(SplitOnce(rules[i][1], StarDot)[1])
    /\ PlainKey(SplitOnce(rules[i][1], StarDot)[2])
    /\ Alone(i, <<SplitOnce(rules[i][1], StarDot)[1], SplitOnce(rules[i][1], StarDot)[2]>>)
    /\ Alone(i, <<SplitOnce(rules[i][1], StarDot)[1] \o Underscore \o SplitOnce(rules[i][1], StarDot)[2]>>)

\* the non-null S values of the mapping elements of a sequence, nulls pruned
C5List(seq, S) ==
    LET NotNull(y) == y # Null
    IN  Pruned(JList(SelectSeq(ElementValues(seq, S), NotNull)))

C5_WildcardFlatKey ==
    pc = "done" =>
        \A i \in 1..Len(rules), n \in 1..Len(InRecs) :
            LET A == SplitOnce(rules[i][1], StarDot)[1]
                S == SplitOnce(rules[i][1], StarDot)[2]
                key == IF S = kName THEN A ELSE A \o Underscore \o S
                rec == InRecs[n]
                out == OutRecs[n]
            IN  (C5Rule(i) /\ HasKey(rec, A) /\ IsList(rec.v[A])) =>
                    HasKey(out, key) /\ out.v[key] = C5List(rec.v[A].v, S)

(***************************************************************************)
(* C5  Wildcard key naming (amended): a top-level rule A[*].S with          *)
(* instruction true puts the list of the elements' S values under the       *)
(* nested location output[A][S], for S = "name" as for any other S:         *)
(* output[A] is a mapping holding key S (its only key when no other rule    *)
(* writes under A), and no top-level key A_S is produced.                   *)
(***************************************************************************)
C5_WildcardNestedKey ==
    pc = "done" =>
        \A i \in 1..Len(rules), n \in 1..Len(InRecs) :
            LET A == SplitOnce(rules[i][1], StarDot)[1]
                S == SplitOnce(rules[i][1], StarDot)[2]
                rec == InRecs[n]
                out == OutRecs[n]
            IN  (C5Rule(i) /\ HasKey(rec, A) /\ IsList(rec.v[A])) =>
                    /\ HasKey(out, A)
                    /\ IsMap(out.v[A])
                    /\ HasKey(out.v[A], S)
                    /\ out.v[A].v[S] = C5List(rec.v[A].v, S)
                    /\ (Alone(i, <<A>>) => DOMAIN out.v[A].v = {S})
                    /\ ~HasKey(out, A \o Underscore \o S)

\* both naming cases returned a non-empty list under the nested location
C5_Witness ==
    /\ pc = "done"
    /\ ~IsList(data0)
    /\ \E i \in 1..Len(rules) :
        /\ C5Rule(i)
        /\ SplitOnce(rules[i][1], StarDot)[2] = kName
        /\ HasKey(result, kA) /\ IsMap(result.v[kA]) /\ HasKey(result.v[kA], kName)
        /\ result.v[kA].v[kName] # EmptyList
    /\ \E i \in 1..Len(rules) :
        /\ C5Rule(i)
        /\ SplitOnce(rules[i][1], StarDot)[2] = kU
        /\ HasKey(result, kA) /\ IsMap(result.v[kA]) /\ HasKey(result.v[kA], kU)
        /\ result.v[kA].v[kU] # EmptyList

(***************************************************************************)
(* C6  Wildcard sub-rule: for a sub-rule A[*].S of a mixed instruction at   *)
(* key p, and an element of record[p] whose field A is a sequence, the      *)
(* element's output mapping holds, under key A when S is "name" and A_S     *)
(* otherwise, the list of the S values of A's mapping elements that have S  *)
(* (the empty list for an empty A); the returned output holds that list     *)
(* with its nulls pruned, and the rule puts nothing at the top level of the *)
(* output but key p.                                                        *)
(***************************************************************************)
\* sub-rule q of rule i is a wildcard sub-rule on plain names whose key no
\* later sub-rule of the instruction writes
C6Sub(i, q) ==
    LET subs == rules[i][2].sub
    IN  /\ StrIn(StarDot, subs[q][1])
        /\ PlainKey(SplitOnce(subs[q][1], StarDot)[1])
        /\ PlainKey(SplitOnce(subs[q][1], StarDot)[2])
        /\ \A q2 \in (q + 1)..Len(subs) : SubKey(subs[q2]) # SubKey(subs[q])

\* the key of the claim: A for S = "name", A_S otherwise
C6Key(A, S) == IF S = kName THEN A ELSE A \o Underscore \o S

C6_WildcardSubRule ==
    /\ Working =>
        \A i \in 1..(r - 1) :
            (/\ C4Rule(i)
             /\ HasKey(InRecs[idx], rules[i][1])
             /\ IsList(InRecs[idx].v[rules[i][1]])) =>
                LET p == rules[i][1]
                    elems == InRecs[idx].v[p].v
                IN  \A q \in 1..Len(rules[i][2].sub), j \in 1..Len(elems) :
                        LET A == SplitOnce(rules[i][2].sub[q][1], StarDot)[1]
                            S == SplitOnce(rules[i][2].sub[q][1], StarDot)[2]
                        IN  (/\ C6Sub(i, q)
                             /\ IsMap(elems[j])
                             /\ HasKey(elems[j], A)
                             /\ IsList(elems[j].v[A])) =>
                                /\ IsList(output.v[p])
                                /\ Len(output.v[p].v) = Len(elems)
                                /\ IsMap(output.v[p].v[j])
                                /\ HasKey(output.v[p].v[j], C6Key(A, S))
                                /\ output.v[p].v[j].v[C6Key(A, S)]
                                     = JList(ElementValues(elems[j].v[A].v, S))
                                /\ (elems[j].v[A] = EmptyList
                                    => output.v[p].v[j].v[C6Key(A, S)] = EmptyList)
    /\ pc = "done" =>
        \A i \in 1..Len(rules), n \in 1..Len(InRecs) :
            (C4Rule(i) /\ SeqOfMaps(InRecs[n], rules[i][1])) =>
                LET p == rules[i][1]
                    elems == InRecs[n].v[p].v
                    out == OutRecs[n]
                IN  /\ \A q \in 1..Len(rules[i][2].sub), j \in 1..Len(elems) :
                        LET A == SplitOnce(rules[i][2].sub[q][1], StarDot)[1]
                            S == SplitOnce(rules[i][2].sub[q][1], StarDot)[2]
                        IN  (/\ C6Sub(i, q)
                             /\ HasKey(elems[j], A)
                             /\ IsList(elems[j].v[A])) =>
                                /\ HasKey(out.v[p].v[j], C6Key(A, S))
                                /\ out.v[p].v[j].v[C6Key(A, S)]
                                     = Pruned(JList(ElementValues(elems[j].v[A].v, S)))
                    /\ \A k \in DOMAIN out.v : k = p \/ ~Alone(i, <<k>>)

\* a returned element holds a non-empty list under the sub-rule's key and
\* another the empty list of an empty A, and the top level holds key p only
C6_Witness ==
    /\ pc = "done"
    /\ ~IsList(data0)
    /\ \E i \in 1..Len(rules) :
        /\ C4Rule(i)
        /\ SeqOfMaps(data0, rules[i][1])
        /\ DOMAIN result.v = {rules[i][1]}
        /\ \E q \in 1..Len(rules[i][2].sub) :
            /\ C6Sub(i, q)
            /\ \E j, j2 \in 1..Len(result.v[rules[i][1]].v) :
                LET key == SubKey(rules[i][2].sub[q])
                    A == SplitOnce(rules[i][2].sub[q][1], StarDot)[1]
                    el == result.v[rules[i][1]].v
                IN  /\ HasKey(el[j], key) /\ IsList(el[j].v[key])
                    /\ Len(el[j].v[key].v) > 0
                    /\ data0.v[rules[i][1]].v[j2].v[A] = EmptyList
                    /\ HasKey(el[j2], key) /\ el[j2].v[key] = EmptyList

(***************************************************************************)
(* C7  Nested location: a top-level path rule with instruction true whose   *)
(* location no other rule addresses stores its resolved non-null value at   *)
(* the nested output location obtained by removing "[*]" from the path and  *)
(* splitting it on dots (a.b -> output[a][b], A[*].S -> output[A][S]        *)
(* holding the list); it stays there while later rules write next to it     *)
(* under the same prefix, and the returned output holds it with its nulls   *)
(* pruned.                                                                  *)
(***************************************************************************)
\* the location of a path: "[*]" removed, split on dots
C7Keys(path) == StrSplit(StrRemove(path, Star), Dot)

C7Rule(i) ==
    /\ rules[i][2] = ITrue
    /\ rules[i][1] \notin {Dot, At}
    /\ \A j \in 1..Len(C7Keys(rules[i][1])) : PlainKey(C7Keys(rules[i][1])[j])
    /\ Alone(i, C7Keys(rules[i][1]))

\* what the path resolves to in the record
C7Value(path, rec) ==
    IF StrIn(StarDot, path)
    THEN LET A == SplitOnce(path, StarDot)[1]
             S == SplitOnce(path, StarDot)[2]
             NotNull(y) == y # Null
         IN  IF HasKey(rec, A) /\ IsList(rec.v[A])
             THEN JList(SelectSeq(ElementValues(rec.v[A].v, S), NotNull))
             ELSE EmptyList
    ELSE GetPath(rec, C7Keys(path))

\* m holds a value at the nested location keys, through mappings only
C7Holds(m, keys, value) ==
    /\ \A j \in 0..(Len(keys) - 1) :
          /\ IsMap(GetPath(m, SubSeq(keys, 1, j)))
          /\ HasKey(GetPath(m, SubSeq(keys, 1, j)), keys[j + 1])
    /\ GetPath(m, keys) = value

C7_NestedLocation ==
    /\ Working =>
        \A i \in 1..(r - 1) :
            (C7Rule(i) /\ C7Value(rules[i][1], InRecs[idx]) # Null) =>
                C7Holds(output, C7Keys(rules[i][1]), C7Value(rules[i][1], InRecs[idx]))
    /\ pc = "done" =>
        \A i \in 1..Len(rules), n \in 1..Len(InRecs) :
            (C7Rule(i) /\ C7Value(rules[i][1], InRecs[n]) # Null) =>
                C7Holds(OutRecs[n], C7Keys(rules[i][1]),
                        Pruned(C7Value(rules[i][1], InRecs[n])))

\* two rules with the prefix b both left their value under result[b], and a
\* wildcard rule left its list under result[a]
C7_Witness ==
    /\ pc = "done"
    /\ ~IsList(data0)
    /\ \E i, j \in 1..Len(rules) :
        /\ i # j
        /\ C7Rule(i) /\ C7Rule(j)
        /\ Len(C7Keys(rules[i][1])) = 2 /\ Len(C7Keys(rules[j][1])) = 2
        /\ C7Keys(rules[i][1])[1] = C7Keys(rules[j][1])[1]
        /\ ~StrIn(Star, rules[i][1]) /\ ~StrIn(Star, rules[j][1])
        /\ C7Value(rules[i][1], data0) # Null
        /\ C7Value(rules[j][1], data0) # Null
        /\ DOMAIN result.v[C7Keys(rules[i][1])[1]].v
             = {C7Keys(rules[i][1])[2], C7Keys(rules[j][1])[2]}

(***************************************************************************)
(* C8  Regex scalar filter: for a rule {k: {regex: R}} on a key k that no   *)
(* other rule addresses, and record[k] a string: if R matches anywhere in   *)
(* record[k] the returned output has key k with the string unchanged; if R  *)
(* matches nowhere, the returned output has no key k at all.                *)
(***************************************************************************)
C8Rule(i) ==
    /\ IsDictInstr(rules[i][2])
    /\ DOMAIN rules[i][2].d = {"regex"}
    /\ rules[i][2].sub = <<>>
    /\ PlainKey(rules[i][1])
    /\ Alone(i, <<rules[i][1]>>)

\* the literal pattern R occurs in s at some offset
C8Matches(R, s) ==
    \E o \in 0..Len(s) : o + Len(R) <= Len(s) /\ SubSeq(s, o + 1, o + Len(R)) = R

C8_RegexScalar ==
    pc = "done" =>
        \A i \in 1..Len(rules), n \in 1..Len(InRecs) :
            LET k == rules[i][1]
                rec == InRecs[n]
                out == OutRecs[n]
            IN  (C8Rule(i) /\ HasKey(rec, k) /\ IsStr(rec.v[k])) =>
                    IF C8Matches(rules[i][2].d.regex, rec.v[k].v)
                    THEN HasKey(out, k) /\ out.v[k] = rec.v[k]
                    ELSE ~HasKey(out, k)

\* of two records of one call, one kept its string on a match that does not
\* start at the first character, the other lost the key on no match
C8_Witness ==
    /\ pc = "done"
    /\ IsList(data0)
    /\ \E i \in 1..Len(rules), n, n2 \in 1..Len(InRecs) :
        LET k == rules[i][1]
            R == rules[i][2].d.regex
        IN  /\ C8Rule(i)
            /\ HasKey(InRecs[n], k) /\ IsStr(InRecs[n].v[k])
            /\ C8Matches(R, InRecs[n].v[k].v)
            /\ SubSeq(InRecs[n].v[k].v, 1, Len(R)) # R
            /\ HasKey(OutRecs[n], k)
            /\ HasKey(InRecs[n2], k) /\ IsStr(InRecs[n2].v[k])
            /\ ~C8Matches(R, InRecs[n2].v[k].v)
            /\ ~HasKey(OutRecs[n2], k)

(***************************************************************************)
(* C9  Limit truncation: for a rule {k: {limit: N, fields: F}} with N >= 0  *)
(* on a key k that no other rule addresses, and record[k] a sequence of m   *)
(* mappings, output[k] is a sequence of exactly min(N, m) elements, element *)
(* j being record[k][j] projected to the fields of F it contains, in the    *)
(* original order; the returned output holds the same elements with their   *)
(* nulls pruned.                                                            *)
(***************************************************************************)
C9Rule(i) ==
    /\ IsDictInstr(rules[i][2])
    /\ DOMAIN rules[i][2].d = {"limit", "fields"}
    /\ rules[i][2].sub = <<>>
    /\ rules[i][2].d.limit >= 0
    /\ \A f \in 1..Len(rules[i][2].d.fields) :
          /\ rules[i][2].d.fields[f].t = "str"
          /\ PlainKey(rules[i][2].d.fields[f].v)
    /\ PlainKey(rules[i][1])
    /\ Alone(i, <<rules[i][1]>>)

\* the mapping e restricted to the names of F it has
C9Projection(e, F) ==
    JMap([k \in {F[f].v : f \in 1..Len(F)} \cap DOMAIN e.v |-> e.v[k]])

C9_LimitTruncation ==
    /\ Working =>
        \A i \in 1..(r - 1) :
            (C9Rule(i) /\ SeqOfMaps(InRecs[idx], rules[i][1])) =>
                LET k == rules[i][1]
                    elems == InRecs[idx].v[k].v
                    N == rules[i][2].d.limit
                IN  /\ HasKey(output, k)
                    /\ IsList(output.v[k])
                    /\ Len(output.v[k].v) = Min(N, Len(elems))
                    /\ \A j \in 1..Len(output.v[k].v) :
                          output.v[k].v[j] = C9Projection(elems[j], rules[i][2].d.fields)
    /\ pc = "done" =>
        \A i \in 1..Len(rules), n \in 1..Len(InRecs) :
            (C9Rule(i) /\ SeqOfMaps(InRecs[n], rules[i][1])) =>
                LET k == rules[i][1]
                    elems == InRecs[n].v[k].v
                    N == rules[i][2].d.limit
                    out == OutRecs[n]
                IN  /\ HasKey(out, k)
                    /\ IsList(out.v[k])
                    /\ Len(out.v[k].v) = Min(N, Len(elems))
                    /\ \A j \in 1..Len(out.v[k].v) :
                          out.v[k].v[j]
                            = Pruned(C9Projection(elems[j], rules[i][2].d.fields))

\* a limit below the length cut a sequence to its first elements
C9_Witness ==
    /\ pc = "done"
    /\ ~IsList(data0)
    /\ \E i \in 1..Len(rules) :
        /\ C9Rule(i)
        /\ SeqOfMaps(data0, rules[i][1])
        /\ rules[i][2].d.limit > 0
        /\ rules[i][2].d.limit < Len(data0.v[rules[i][1]].v)
        /\ Len(result.v[rules[i][1]].v) = rules[i][2].d.limit
        /\ result.v[rules[i][1]].v[1] # EmptyMap

(***************************************************************************)
(* C10  Root fields (as claimed): for a rule {"@": {fields: F}}, the output *)
(* root has exactly the keys f of F for which record[f] is present and not  *)
(* null, each mapped to record[f].                                          *)
(***************************************************************************)
C10Rule(i) ==
    /\ RuleKind(rules[i][1], rules[i][2]) = "root"
    /\ \A f \in 1..Len(rules[i][2].d.fields) :
          /\ rules[i][2].d.fields[f].t = "str"
          /\ Alone(i, <<rules[i][2].d.fields[f].v>>)

\* the names of the fields of the root rule i
C10Fields(i) == {rules[i][2].d.fields[f].v : f \in 1..Len(rules[i][2].d.fields)}

C10_RootFieldsUnchanged ==
    pc = "done" =>
        \A i \in 1..Len(rules), n \in 1..Len(InRecs) :
            C10Rule(i) =>
                \A f \in C10Fields(i) :
                    IF HasKey(InRecs[n], f) /\ InRecs[n].v[f] # Null
                    THEN HasKey(OutRecs[n], f) /\ OutRecs[n].v[f] = InRecs[n].v[f]
                    ELSE ~HasKey(OutRecs[n], f)

(***************************************************************************)
(* C10  Root fields (amended): for a rule {"@": {fields: F}} whose fields   *)
(* no other rule addresses, the returned output root has exactly the keys f *)
(* of F for which record[f] is present and not null, each mapped to         *)
(* record[f] with its nulls pruned at every depth (record[f] itself when it *)
(* holds no null), with no extra nesting and no other key from this rule;   *)
(* any other directive or sub-rule key inside the "@" instruction has no    *)
(* effect.                                                                  *)
(***************************************************************************)
\* the rule set with every root rule cut down to its fields directive
C10FieldsOnly(rs) ==
    [j \in 1..Len(rs) |->
        IF RuleKind(rs[j][1], rs[j][2]) = "root"
        THEN <<rs[j][1], IDict([fields |-> rs[j][2].d.fields], <<>>)>>
        ELSE rs[j]]

C10_RootFieldsPruned ==
    pc = "done" =>
        \A i \in 1..Len(rules), n \in 1..Len(InRecs) :
            C10Rule(i) =>
                /\ \A f \in C10Fields(i) :
                      IF HasKey(InRecs[n], f) /\ InRecs[n].v[f] # Null
                      THEN /\ HasKey(OutRecs[n], f)
                           /\ OutRecs[n].v[f] = Pruned(InRecs[n].v[f])
                           /\ (~HasNull(InRecs[n].v[f])
                               => OutRecs[n].v[f] = InRecs[n].v[f])
                      ELSE ~HasKey(OutRecs[n], f)
                /\ \A k \in DOMAIN OutRecs[n].v : k \in C10Fields(i) \/ ~Alone(i, <<k>>)
                /\ OutRecs[n] = _extract_one(C10FieldsOnly(rules), InRecs[n])

\* a root rule carrying a limit and a sub-rule next to its fields returned
\* the field alone, and a root rule returned some of its fields but not all
C10_Witness ==
    /\ pc = "done"
    /\ ~IsList(data0)
    /\ \E i \in 1..Len(rules) :
        /\ C10Rule(i)
        /\ \/ /\ rules[i][2].sub # <<>>
              /\ DOMAIN rules[i][2].d # {"fields"}
              /\ DOMAIN result.v = C10Fields(i)
              /\ \E f \in C10Fields(i) : HasNull(data0.v[f])
           \/ /\ Len(rules) = 1
              /\ DOMAIN result.v # {}
              /\ DOMAIN result.v # C10Fields(i)

(***************************************************************************)
(* Rule sets on paths that resolve to nothing, with defaults, and with a    *)
(* nested field spec applied to a mapping value                             *)
(***************************************************************************)
dFive == JNum(5)

PoolEdge ==
    { <<kC, IDict([default |-> dFive], <<>>)>>,
      <<kB, IDict([default |-> dFive], <<>>)>>,
      <<kB \o Dot \o kName, IDict([default |-> dFive], <<>>)>>,
      <<kC \o StarDot \o kU, ITrue>>,
      <<kC \o Dot \o kU, ITrue>>,
      <<kU, ITrue>>,
      <<kC, IDict([fields |-> Fields1(kU)], << <<kName, ITrue>> >>)>>,
      <<kP, IDict([fields |-> Fields1(kName)], << <<kC, ITrue>> >>)>>,
      <<At, IDict([fields |-> Fields2(kC, kU)], <<>>)>>,
      <<kB, IDict([fields |-> <<FNested(<< <<kC, <<kU>> >> >>)>>], <<>>)>> }

SpecEdge == InitWith(PoolEdge) /\ [][Next]_vars

(***************************************************************************)
(* C11  Default: for a rule whose instruction is a directive mapping with   *)
(* `default`, on a location no other rule addresses, when the rule's path   *)
(* resolves to nothing in the record (the key is absent or its value is     *)
(* null), the returned output holds the default value at the rule's key.    *)
(***************************************************************************)
C11Rule(i) ==
    /\ HasDirective(rules[i][2], "default")
    /\ rules[i][1] \notin {Dot, At}
    /\ ~StrIn(Star, rules[i][1])
    /\ Alone(i, C7Keys(rules[i][1]))

C11_DefaultUsed ==
    pc = "done" =>
        \A i \in 1..Len(rules), n \in 1..Len(InRecs) :
            (C11Rule(i) /\ GetPath(InRecs[n], C7Keys(rules[i][1])) = Null) =>
                \/ C7Holds(OutRecs[n], C7Keys(rules[i][1]), rules[i][2].d.default)
                \/ (HasKey(OutRecs[n], rules[i][1])
                    /\ OutRecs[n].v[rules[i][1]] = rules[i][2].d.default)

(***************************************************************************)
(* C12  Absent path: a rule without default whose field or path is absent   *)
(* from the record contributes no key to the returned output: a plain       *)
(* top-level path, a top-level wildcard array path whose array field is     *)
(* absent, the root fields named under "@", and a mixed instruction whose   *)
(* parent key is absent.                                                    *)
(***************************************************************************)
\* the top-level field the rule's path starts from
C12Field(path) == C7Keys(path)[1]

\* rule i has no default and addresses only fields absent from rec
C12Absent(i, rec) ==
    /\ ~HasDirective(rules[i][2], "default")
    /\ rules[i][1] # Dot
    /\ IF RuleKind(rules[i][1], rules[i][2]) = "root"
       THEN \A f \in C10Fields(i) : ~HasKey(rec, f)
       ELSE rules[i][1] # At /\ ~HasKey(rec, C12Field(rules[i][1]))

\* the top-level output keys rule i could write
C12Keys(i) ==
    IF RuleKind(rules[i][1], rules[i][2]) = "root" THEN C10Fields(i)
    ELSE {C12Field(rules[i][1]), rules[i][1]}

C12_AbsentNoKey ==
    pc = "done" =>
        \A i \in 1..Len(rules), n \in 1..Len(InRecs) :
            C12Absent(i, InRecs[n]) =>
                \A k \in C12Keys(i) : Alone(i, <<k>>) => ~HasKey(OutRecs[n], k)

(***************************************************************************)
(* C13  No exception: without a model converter, extract() never raises,    *)
(* whatever the shape of the values and whatever the rule set built from    *)
(* true, string and directive-mapping instructions without custom filter.   *)
(***************************************************************************)
C13_NeverRaises == pc # "raised"

(***************************************************************************)
(* Repeated calls.  The caller keeps one input object and gives it to       *)
(* extract() again and again, with calls on other inputs in between; seen   *)
(* holds the object as the calls left it (now) and the first result         *)
(* returned for it (res), cur tells that the running call is on it.         *)
(***************************************************************************)
PoolAlias ==
    { <<kB, ITrue>>,
      <<kB \o StarDot \o kU, ITrue>>,
      <<kB \o Dot \o kC, ITrue>>,
      <<kB \o Dot \o kU, ITrue>>,
      <<kB \o Dot \o kC \o StarDot \o kName, ITrue>>,
      <<kB \o Dot \o kA \o StarDot \o kU, ITrue>>,
      <<kB, IDict([limit |-> 1], <<>>)>>,
      <<At, IDict([fields |-> Fields1(kB)], <<>>)>>,
      <<kP, IDict([fields |-> Fields1(kName)], << <<kA \o StarDot \o kU, ITrue>> >>)>> }

\* the kept object and its first result once the call that just ended is
\* taken into account
Settled ==
    IF seen.cur
    THEN [held |-> TRUE, cur |-> FALSE, now |-> data,
          res |-> IF seen.res = Null /\ pc = "done" THEN result ELSE seen.res]
    ELSE seen

\* extract() is called on the kept input object (kept from now on, if none was)
CallHeld ==
    /\ \E d \in (IF seen.held THEN {Settled.now} ELSE Inputs) :
        /\ Enter(d)
        /\ seen' = [held |-> TRUE, cur |-> TRUE, now |-> d, res |-> Settled.res]
    /\ UNCHANGED other

\* extract() is called on another input
CallOther ==
    /\ \E d \in Inputs : Enter(d)
    /\ seen' = Settled
    /\ UNCHANGED other

NextAlias ==
    \/ CallHeld
    \/ CallOther
    \/ ExtractRootFields
    \/ ProcessMixedInstruction
    \/ ProcessSimpleInstruction
    \/ ProcessPathExtraction
    \/ FinishRecord
    \/ Return

SpecAlias == InitWith(PoolAlias) /\ [][NextAlias]_vars

(***************************************************************************)
(* C14  Repeated calls: every call of extract() on the kept input object    *)
(* that follows a call that returned returns too, and returns a value equal *)
(* to the first one returned, whatever calls on this or other inputs were   *)
(* made in between.                                                         *)
(***************************************************************************)
C14_Repeatable ==
    (seen.cur /\ seen.res # Null) =>
        /\ pc # "raised"
        /\ pc = "done" => result = seen.res

\* a call on the kept object returned the first result again, on an object
\* that an earlier call had changed
C14_Witness ==
    /\ pc = "done"
    /\ seen.cur
    /\ seen.res # Null
    /\ result = seen.res
    /\ result \notin {EmptyMap, EmptyList}
    /\ data0 \notin Inputs

(***************************************************************************)
(* C15  Input untouched: when extract() returns, its argument is equal at   *)
(* every depth to what it was when the call was entered.                    *)
(***************************************************************************)
C15_InputUntouched == pc = "done" => data = data0

(***************************************************************************)
(* Concurrent calls.  Two calls of extract() on one extractor, each on its  *)
(* own input, run interleaved: the running call's locals are the variables  *)
(* of the call, the suspended call's locals are kept in other, and a switch *)
(* of the running thread may come between any two steps.  The extractor     *)
(* itself (rules, compiled paths, model) is what the two calls share.       *)
(***************************************************************************)
PoolConc ==
    { <<kB, ITrue>>,
      <<kB \o StarDot \o kU, ITrue>>,
      <<kP, IDict([fields |-> Fields1(kName)], << <<kA \o StarDot \o kU, ITrue>> >>)>>,
      <<At, IDict([fields |-> Fields2(kName, kU)], <<>>)>>,
      <<kB, IDict([fields |-> <<FNested(<< <<kC, <<kU>> >> >>)>>], <<>>)>> }

\* the locals of the running call
Current ==
    [data0 |-> data0, data |-> data, pc |-> pc, idx |-> idx, r |-> r,
     output |-> output, alias |-> alias, results |-> results, result |-> result,
     convlog |-> convlog]

\* a switch in which the output mapping is one object of the extractor, used
\* by both calls, instead of a local of each call
Switch_shared ==
    /\ other' = [Current EXCEPT !.output = EmptyMap]
    /\ data0' = other.data0
    /\ data' = other.data
    /\ pc' = other.pc
    /\ idx' = other.idx
    /\ r' = other.r
    /\ output' = output
    /\ alias' = other.alias
    /\ results' = other.results
    /\ result' = other.result
    /\ convlog' = other.convlog
    /\ UNCHANGED <<rules, model, seen>>

\* the running thread is suspended and the other one goes on
Switch ==
    /\ other' = Current
    /\ data0' = other.data0
    /\ data' = other.data
    /\ pc' = other.pc
    /\ idx' = other.idx
    /\ r' = other.r
    /\ output' = other.output
    /\ alias' = other.alias
    /\ results' = other.results
    /\ result' = other.result
    /\ convlog' = other.convlog
    /\ UNCHANGED <<rules, model, seen>>

NextConc ==
    \/ Call
    \/ Switch
    \/ ExtractRootFields
    \/ ProcessMixedInstruction
    \/ ProcessSimpleInstruction
    \/ ProcessPathExtraction
    \/ FinishRecord
    \/ Return

SpecConc == InitWith(PoolConc) /\ [][NextConc]_vars

\* what extract(d) gives when it runs alone: the returned value, or Raise
ExtractAlone(rs, d) ==
    IF IsList(d)
    THEN LET outs == [i \in 1..Len(d.v) |-> _extract_one(rs, d.v[i])]
         IN  IF \E i \in 1..Len(outs) : outs[i] = Raise THEN Raise ELSE JList(outs)
    ELSE _extract_one(rs, d)

\* the call with locals c ended as it would have ended alone
EndsAsAlone(c) ==
    /\ c.pc = "done" => c.result = ExtractAlone(rules, c.data0)
    /\ c.pc = "raised" => ExtractAlone(rules, c.data0) = Raise

(***************************************************************************)
(* C16  Concurrent calls: of two extract() calls interleaved at any step on *)
(* one extractor, each on its own input, each returns exactly what it       *)
(* returns when run alone (and raises only if it raises alone), and no step *)
(* changes the rule set or the model of the extractor.                      *)
(***************************************************************************)
C16_Independent ==
    /\ [](EndsAsAlone(Current) /\ EndsAsAlone(other))
    /\ [][rules' = rules /\ Compiled(rules') = Compiled(rules) /\ model' = model]_vars

\* a call went through all its steps and returned while the other call, on
\* another input, was suspended between two of its rules
C16_Witness ==
    /\ pc = "done"
    /\ result \notin {EmptyMap, EmptyList}
    /\ other.pc = "rules"
    /\ other.r = 2
    /\ other.output # EmptyMap
    /\ other.data0 # data0
    /\ Len(rules) = 2

(***************************************************************************)
(* Extractors built with a model converter                                  *)
(***************************************************************************)
\* the converters given to the constructor: one with a required field, one
\* that takes every mapping
Models ==
    { [t |-> "model", required |-> {kName}],
      [t |-> "model", required |-> {}] }

PoolModel ==
    { <<kName, ITrue>>,
      <<kU, ITrue>>,
      <<kB, IDict([fields |-> Fields2(kU, kName)], <<>>)>>,
      <<kP, IDict([fields |-> Fields1(kName)], << <<kA \o StarDot \o kU, ITrue>> >>)>>,
      <<At, IDict([fields |-> Fields2(kName, kB)], <<>>)>> }

InitModel ==
    /\ rules \in RuleSets(PoolModel)
    /\ model \in Models
    /\ data0 = Null
    /\ data = Null
    /\ pc = "idle"
    /\ idx = 0
    /\ r = 0
    /\ output = EmptyMap
    /\ alias = {}
    /\ results = <<>>
    /\ result = Null
    /\ convlog = <<>>
    /\ seen = NoSeen
    /\ other = IdleCall

SpecModel == InitModel /\ [][Next]_vars

(***************************************************************************)
(* C17  Model converter: an extractor built with a converter calls it only  *)
(* once all rules were applied to all records, exactly once per output      *)
(* record in order (once on the single record of a mapping input), on the   *)
(* record's pruned output, and returns the converter's results; when a      *)
(* converter call fails the call of extract() raises and returns nothing.   *)
(***************************************************************************)
C17_ConverterLast ==
    /\ pc = "rules" => convlog = <<>>
    /\ pc = "done" =>
        /\ convlog = results
        /\ Len(convlog) = Len(InRecs)
        /\ \A i \in 1..Len(convlog) :
              /\ convlog[i] = _extract_one(rules, InRecs[i])
              /\ ~HasNull(convlog[i])
              /\ ModelCall(model, convlog[i]) # Raise
              /\ OutRecs[i] = [t |-> "obj", v |-> convlog[i]]
        /\ IsList(result) = IsList(data0)
    /\ (pc = "raised" /\ idx > Len(RecordsOf(data))) =>
        /\ result = Null
        /\ convlog # <<>>
        /\ convlog = SubSeq(results, 1, Len(convlog))
        /\ ModelCall(model, convlog[Len(convlog)]) = Raise
        /\ \A i \in 1..(Len(convlog) - 1) : ModelCall(model, convlog[i]) # Raise

\* a call on two records returned the two objects the converter built from
\* outputs that lost a null to the pruning
C17_Witness ==
    /\ pc = "done"
    /\ IsList(data0)
    /\ Len(convlog) = 2
    /\ model.required # {}
    /\ result.v[1] # result.v[2]
    /\ \E i \in 1..2 : HasNull(data0.v[i]) /\ DOMAIN convlog[i].v # {kName}

(***************************************************************************)
(* C18  Rule order: the order of the rules has no effect on the content of  *)
(* the output: a rule set with the same (key, instruction) pairs in any     *)
(* other insertion order gives an equal result for the same input.          *)
(***************************************************************************)
\* the rule sets holding the rules of rs in every insertion order
C18Orders(rs) ==
    {[i \in 1..Len(rs) |-> rs[f[i]]] :
        f \in {g \in [1..Len(rs) -> 1..Len(rs)] :
                  \A i, j \in 1..Len(rs) : i # j => g[i] # g[j]}}

C18_OrderFree ==
    pc = "done" =>
        \A rs \in C18Orders(rules) : ExtractAlone(rs, data0) = result

(***************************************************************************)
(* C19  Array steps: a directive mapping applied to a sequence runs regex   *)
(* filter, custom filter, limit, fields projection in that order: the       *)
(* result is the first N elements of the filtered sequence, a regex filter  *)
(* removes every non-string element, and the projection is applied to the   *)
(* remaining mapping elements only, other elements passing unchanged.       *)
(***************************************************************************)
sCan == <<"c", "a", "n">>

RecD ==
    Rec3(kName, JStr(sCan),
         kA, JList(<<JStr(sTom), JStr(sBan),
                     Rec2(kU, JNum(1), kName, JStr(sX)),
                     JNum(7), JStr(sCan),
                     Rec2(kName, Null, kB, JNum(2))>>),
         kP, JList(<<Rec1(kU, JNum(3)), JStr(sBan), Null,
                     Rec2(kName, JStr(sTom), kU, JStr(sY)), JStr(sTom)>>))

RecE ==
    Rec2(kA, JStr(sBan),
         kP, JList(<<JStr(sCan), Rec1(kName, JStr(sBan)), JStr(sBan)>>))

InputsArray == {RecD, RecE} \cup {JList(q) : q \in SeqsUpTo({RecD, RecE}, MaxRecs)}

PoolArray ==
    { <<kA, IDict([regex |-> pAn], <<>>)>>,
      <<kA, IDict([regex |-> pAn, limit |-> 1], <<>>)>>,
      <<kA, IDict([filter |-> "is_dict", limit |-> 1, fields |-> Fields1(kName)], <<>>)>>,
      <<kA, IDict([limit |-> 3, fields |-> Fields2(kU, kB)], <<>>)>>,
      <<kA, IDict([regex |-> pAn, filter |-> "is_str", limit |-> 2,
                   fields |-> Fields1(kU)], <<>>)>>,
      <<kP, IDict([filter |-> "is_str", limit |-> 1], <<>>)>>,
      <<kP, IDict([regex |-> pAn, filter |-> "is_dict"], <<>>)>>,
      <<kP, IDict([limit |-> 4, fields |-> Fields2(kName, kU)], <<>>)>>,
      <<kP, IDict([filter |-> "is_dict", fields |-> Fields1(kU)], <<>>)>>,
      <<kA \o StarDot \o kU, ITrue>>,
      <<kP, ITrue>> }

\* extract(data) is entered on a record whose sequences mix strings, numbers,
\* nulls and mappings
CallArray ==
    /\ \E d \in InputsArray : Enter(d)
    /\ UNCHANGED <<seen, other>>

NextArray ==
    \/ CallArray
    \/ ProcessSimpleInstruction
    \/ ProcessPathExtraction
    \/ FinishRecord
    \/ Return

SpecArray == InitWith(PoolArray) /\ [][NextArray]_vars

\* rule i is a directive mapping without sub-rules on a plain key that no
\* other rule addresses, with a limit that is not negative and plain fields
C19Rule(i) ==
    /\ IsDictInstr(rules[i][2])
    /\ rules[i][2].sub = <<>>
    /\ DOMAIN rules[i][2].d # {}
    /\ DOMAIN rules[i][2].d \subseteq {"regex", "filter", "limit", "fields"}
    /\ "limit" \in DOMAIN rules[i][2].d => rules[i][2].d.limit >= 0
    /\ "fields" \in DOMAIN rules[i][2].d =>
          \A f \in 1..Len(rules[i][2].d.fields) :
              /\ rules[i][2].d.fields[f].t = "str"
              /\ PlainKey(rules[i][2].d.fields[f].v)
    /\ PlainKey(rules[i][1])
    /\ Alone(i, <<rules[i][1]>>)

\* the record holds a sequence under key k
C19Seq(rec, k) == IsMap(rec) /\ HasKey(rec, k) /\ IsList(rec.v[k])

\* what the claim says the directives d make of the sequence elems
C19Result(elems, d) ==
    LET Keep(x) ==
            /\ "regex" \in DOMAIN d => IsStr(x) /\ StrIn(d.regex, x.v)
            /\ "filter" \in DOMAIN d =>
                  (d.filter = "is_dict" => IsMap(x)) /\ (d.filter = "is_str" => IsStr(x))
        filtered == SelectSeq(elems, Keep)
        n == IF "limit" \in DOMAIN d THEN Min(d.limit, Len(filtered)) ELSE Len(filtered)
    IN  JList([j \in 1..n |->
                  IF "fields" \in DOMAIN d /\ IsMap(filtered[j])
                  THEN C9Projection(filtered[j], d.fields)
                  ELSE filtered[j]])

C19_ArraySteps ==
    /\ Working =>
        \A i \in 1..(r - 1) :
            (C19Rule(i) /\ C19Seq(InRecs[idx], rules[i][1])) =>
                /\ HasKey(output, rules[i][1])
                /\ output.v[rules[i][1]]
                      = C19Result(InRecs[idx].v[rules[i][1]].v, rules[i][2].d)
    /\ pc = "done" =>
        \A i \in 1..Len(rules), n \in 1..Len(InRecs) :
            (C19Rule(i) /\ C19Seq(InRecs[n], rules[i][1])) =>
                /\ HasKey(OutRecs[n], rules[i][1])
                /\ OutRecs[n].v[rules[i][1]]
                      = Pruned(C19Result(InRecs[n].v[rules[i][1]].v, rules[i][2].d))

\* a regex, a custom filter and a limit met on one sequence that holds a
\* matching string after the limit's position and elements that are no strings
C19_Witness ==
    /\ pc = "done"
    /\ data0 = RecD
    /\ \E i \in 1..Len(rules) :
        /\ C19Rule(i)
        /\ DOMAIN rules[i][2].d = {"regex", "filter", "limit", "fields"}
        /\ rules[i][1] = kA
        /\ result.v[kA] = JList(<<JStr(sBan), JStr(sCan)>>)

(***************************************************************************)
(* Directive mappings with additional keys                                  *)
(***************************************************************************)
PoolSub ==
    { <<kP, IDict([limit |-> 2], << <<kA \o StarDot \o kU, ITrue>> >>)>>,
      <<kP, IDict([regex |-> pAn], << <<kU, ITrue>> >>)>>,
      <<kB, IDict([default |-> dFive], << <<kC, IList(<<kU>>)>> >>)>>,
      <<kP, IDict([fields |-> Fields1(kName)],
                  << <<kA \o StarDot \o kU, ITrue>>, <<kB, ITrue>> >>)>>,
      <<kP, IDict([fields |-> Fields1(kName), limit |-> 2], << <<kU, ITrue>> >>)>>,
      <<kP, IDict([fields |-> Fields1(kU), limit |-> 1],
                  << <<kA \o StarDot \o kName, ITrue>>, <<kName, ITrue>> >>)>>,
      <<kB, IDict([fields |-> Fields1(kU)], << <<kC, ITrue>> >>)>>,
      <<kB, IDict([fields |-> Fields1(kName)],
                  << <<kC, IDict([fields |-> Fields1(kU)], <<>>)>>, <<kU, ITrue>> >>)>>,
      <<kName, IDict([fields |-> Fields1(kU)], << <<kU, ITrue>> >>)>>,
      <<kA, IDict([fields |-> Fields1(kU)], << <<kName, ITrue>> >>)>>,
      <<kU, ITrue>>,
      <<kB \o Dot \o kC, ITrue>> }

NextSub ==
    \/ Call
    \/ ProcessMixedInstruction
    \/ ProcessSimpleInstruction
    \/ ProcessPathExtraction
    \/ FinishRecord
    \/ Return

SpecSub == InitWith(PoolSub) /\ [][NextSub]_vars

\* rule i is a directive mapping with additional keys, without regex or
\* filter and with no negative limit, on a plain key no other rule addresses
C20Rule(i) ==
    /\ IsDictInstr(rules[i][2])
    /\ DOMAIN rules[i][2].d # {}
    /\ DOMAIN rules[i][2].d \subseteq {"fields", "limit", "default"}
    /\ "limit" \in DOMAIN rules[i][2].d => rules[i][2].d.limit >= 0
    /\ rules[i][2].sub # <<>>
    /\ PlainKey(rules[i][1])
    /\ Alone(i, <<rules[i][1]>>)

\* the mapping o holds what sub-rule q of subs makes of the mapping e, under
\* every key that no later sub-rule writes
C20SubIn(e, o, subs, q) ==
    LET res == _apply_sub_rule_to_item(e, subs[q][1], subs[q][2], EmptyMap)
    IN  \A k \in DOMAIN res.v :
            (\A q2 \in (q + 1)..Len(subs) : SubKey(subs[q2]) # k)
            => HasKey(o, k) /\ o.v[k] = res.v[k]

\* the number of elements of a sequence of length n the directives d keep
C20Kept(d, n) == IF "limit" \in DOMAIN d THEN Min(d.limit, n) ELSE n

\* every additional key of rule i is applied to the mappings of rec at the
\* rule's key and its result is in out
C20Applied(i, rec, out) ==
    LET p == rules[i][1]
        subs == rules[i][2].sub
        val == rec.v[p]
    IN  /\ HasKey(out, p)
        /\ IsMap(val) =>
              /\ IsMap(out.v[p])
              /\ \A q \in 1..Len(subs) : C20SubIn(val, out.v[p], subs, q)
        /\ IsList(val) =>
              /\ IsList(out.v[p])
              /\ Len(out.v[p].v) = C20Kept(rules[i][2].d, Len(val.v))
              /\ \A j \in 1..Len(out.v[p].v) :
                    IsMap(val.v[j]) =>
                        /\ IsMap(out.v[p].v[j])
                        /\ \A q \in 1..Len(subs) :
                              C20SubIn(val.v[j], out.v[p].v[j], subs, q)

\* the mapping o holds, null-pruned, what sub-rule q of subs makes of the
\* mapping e, under every key that no later sub-rule writes
C20PrunedIn(e, o, subs, q) ==
    LET res == _apply_sub_rule_to_item(e, subs[q][1], subs[q][2], EmptyMap)
    IN  \A k \in DOMAIN res.v :
            (/\ res.v[k] # Null
             /\ \A q2 \in (q + 1)..Len(subs) : SubKey(subs[q2]) # k)
            => HasKey(o, k) /\ o.v[k] = Pruned(res.v[k])

\* C20Applied for the returned output record out, on a mapping or on a
\* sequence of mappings
C20Returned(i, rec, out) ==
    LET p == rules[i][1]
        subs == rules[i][2].sub
        val == rec.v[p]
    IN  /\ HasKey(out, p)
        /\ IsMap(val) =>
              /\ IsMap(out.v[p])
              /\ \A q \in 1..Len(subs) : C20PrunedIn(val, out.v[p], subs, q)
        /\ IsList(val) =>
              /\ IsList(out.v[p])
              /\ Len(out.v[p].v) = C20Kept(rules[i][2].d, Len(val.v))
              /\ \A j \in 1..Len(out.v[p].v) :
                    /\ IsMap(out.v[p].v[j])
                    /\ \A q \in 1..Len(subs) :
                          C20PrunedIn(val.v[j], out.v[p].v[j], subs, q)

\* the record holds a mapping or a sequence under the key of rule i
C20Value(i, rec) ==
    /\ IsMap(rec)
    /\ HasKey(rec, rules[i][1])
    /\ IsMap(rec.v[rules[i][1]]) \/ IsList(rec.v[rules[i][1]])

(***************************************************************************)
(* C20  Sub-rules of a directive mapping (as claimed): in a directive       *)
(* mapping every additional key is applied as a sub-rule to the value at    *)
(* the rule's key and its result is in the output, whether or not the       *)
(* mapping contains fields.                                                 *)
(***************************************************************************)
C20_SubRulesAlways ==
    Working =>
        \A i \in 1..(r - 1) :
            (C20Rule(i) /\ C20Value(i, InRecs[idx])) => C20Applied(i, InRecs[idx], output)

\* the rule set with the additional keys of every directive mapping without
\* fields taken out
C20Stripped(rs) ==
    [i \in 1..Len(rs) |->
        IF /\ IsDictInstr(rs[i][2])
           /\ DOMAIN rs[i][2].d # {}
           /\ "fields" \notin DOMAIN rs[i][2].d
        THEN <<rs[i][1], IDict(rs[i][2].d, <<>>)>>
        ELSE rs[i]]

(***************************************************************************)
(* C20  Sub-rules of a directive mapping (amended): in a directive mapping  *)
(* that contains fields, and neither regex nor filter, every additional     *)
(* key is applied as a sub-rule to the mappings of the value at the rule's  *)
(* key (the value itself, or the elements of a sequence the limit keeps)    *)
(* and its result is in the output; in a directive mapping without fields   *)
(* the additional keys have no effect: the call ends as it does with these  *)
(* keys taken out of the mapping.                                           *)
(***************************************************************************)
C20_SubRulesWithFields ==
    /\ Working =>
        \A i \in 1..(r - 1) :
            (/\ C20Rule(i)
             /\ "fields" \in DOMAIN rules[i][2].d
             /\ C20Value(i, InRecs[idx]))
            => C20Applied(i, InRecs[idx], output)
    /\ pc = "done" =>
        /\ \A i \in 1..Len(rules), n \in 1..Len(InRecs) :
              (/\ C20Rule(i)
               /\ "fields" \in DOMAIN rules[i][2].d
               /\ C20Value(i, InRecs[n])
               /\ IsList(InRecs[n].v[rules[i][1]]) => SeqOfMaps(InRecs[n], rules[i][1]))
              => C20Returned(i, InRecs[n], OutRecs[n])
        /\ result = ExtractAlone(C20Stripped(rules), data0)

\* a sub-rule's result is in an element of the returned sequence that the
\* fields alone would not have put there, and the rule set also holds a
\* directive mapping without fields whose additional key left no trace
C20_Witness ==
    /\ pc = "done"
    /\ data0 = RecA
    /\ Len(rules) = 2
    /\ \E i, j \in 1..2 :
        /\ C20Rule(i)
        /\ "fields" \in DOMAIN rules[i][2].d
        /\ rules[i][1] = kP
        /\ \E e \in 1..Len(result.v[kP].v) :
              \E q \in 1..Len(rules[i][2].sub) :
                  /\ HasKey(result.v[kP].v[e], SubKey(rules[i][2].sub[q]))
                  /\ \A f \in 1..Len(rules[i][2].d.fields) :
                        rules[i][2].d.fields[f].v # SubKey(rules[i][2].sub[q])
        /\ C20Rule(j)
        /\ "fields" \notin DOMAIN rules[j][2].d
        /\ rules[j] # C20Stripped(rules)[j]
        /\ HasKey(result, rules[j][1])

(***************************************************************************)
(* Top-level rules on paths: wildcard paths, dotted paths, directives that  *)
(* do not fit the value, string instructions                                *)
(***************************************************************************)
PoolPath ==
    { <<kP \o StarDot \o kB, IDict([fields |-> Fields1(kU)], <<>>)>>,
      <<kA \o StarDot \o kU, ITrue>>,
      <<kP \o StarDot \o kName, ITrue>>,
      <<kA \o StarDot \o kName, IStr(kC)>>,
      <<kName, IStr(kC)>>,
      <<kB \o Dot \o kC, IStr(kU)>>,
      <<kB \o Dot \o kC, IDict([limit |-> 1], <<>>)>>,
      <<kB \o Dot \o kC, IDict([fields |-> Fields1(kU)], <<>>)>>,
      <<kU, IDict([fields |-> Fields1(kName)], <<>>)>>,
      <<kName, IDict([limit |-> 1], <<>>)>>,
      <<kB, IDict([limit |-> 1], <<>>)>>,
      <<kU, IDict([regex |-> pAn], <<>>)>>,
      <<kB, IDict([fields |-> <<FName(kC \o StarDot \o kU)>>], <<>>)>>,
      <<kB, IDict([fields |-> <<FNested(<< <<kC, <<kU>>>> >>)>>], <<>>)>>,
      <<kA, IDict([fields |-> Fields1(kU)], <<>>)>> }

NextPath ==
    \/ Call
    \/ ProcessSimpleInstruction
    \/ ProcessPathExtraction
    \/ FinishRecord
    \/ Return

SpecPath == InitWith(PoolPath) /\ [][NextPath]_vars

(***************************************************************************)
(* C21  Wildcard path with fields: a top-level rule A[*].S with instruction *)
(* {fields: F}, on a record where A is a sequence of mappings, yields the   *)
(* list of the elements' S values, every mapping-valued S projected to the  *)
(* fields of F it contains.                                                 *)
(***************************************************************************)
\* rule i is A[*].S: {fields: F} on plain names, alone at its locations
C21Rule(i) ==
    /\ IsDictInstr(rules[i][2])
    /\ DOMAIN rules[i][2].d = {"fields"}
    /\ rules[i][2].sub = <<>>
    /\ \A f \in 1..Len(rules[i][2].d.fields) : rules[i][2].d.fields[f].t = "str"
    /\ StrIn(StarDot, rules[i][1])
    /\ PlainKey(SplitOnce(rules[i][1], StarDot)[1])
    /\ PlainKey(SplitOnce(rules[i][1], StarDot)[2])
    /\ Alone(i, <<SplitOnce(rules[i][1], StarDot)[1], SplitOnce(rules[i][1], StarDot)[2]>>)

\* the S values of the elements, the mappings among them projected on F
C21List(seq, S, F) ==
    LET NotNull(y) == y # Null
        vals == SelectSeq(ElementValues(seq, S), NotNull)
    IN  JList([j \in 1..Len(vals) |->
                 IF IsMap(vals[j]) THEN C9Projection(vals[j], F) ELSE vals[j]])

C21_WildcardFields ==
    pc = "done" =>
        \A i \in 1..Len(rules), n \in 1..Len(InRecs) :
            LET A == SplitOnce(rules[i][1], StarDot)[1]
                S == SplitOnce(rules[i][1], StarDot)[2]
            IN  (/\ C21Rule(i)
                 /\ SeqOfMaps(InRecs[n], A)
                 /\ C21List(InRecs[n].v[A].v, S, rules[i][2].d.fields) # EmptyList) =>
                    LET want == Pruned(C21List(InRecs[n].v[A].v, S, rules[i][2].d.fields))
                    IN  \/ C7Holds(OutRecs[n], <<A, S>>, want)
                        \/ (HasKey(OutRecs[n], CleanName(A, S))
                            /\ OutRecs[n].v[CleanName(A, S)] = want)

(***************************************************************************)
(* C22  Directive on a dotted path: a directive mapping without sub-rule    *)
(* keys whose rule key is a dotted path a.b, not a literal key of the       *)
(* record, goes through standard path extraction: the path is resolved      *)
(* against the record, the directives are applied to the resolved value,    *)
(* and the result is stored at the path's output location when non-null.    *)
(***************************************************************************)
\* rule i is a directive mapping without sub-rules on a dotted path without
\* wildcard, alone at its location
C22Rule(i) ==
    /\ IsDictInstr(rules[i][2])
    /\ DOMAIN rules[i][2].d # {}
    /\ rules[i][2].sub = <<>>
    /\ StrIn(Dot, rules[i][1])
    /\ ~StrIn(Star, rules[i][1])
    /\ rules[i][1] # Dot
    /\ Alone(i, C7Keys(rules[i][1]))

C22_DottedDirective ==
    pc = "done" =>
        \A i \in 1..Len(rules), n \in 1..Len(InRecs) :
            (/\ C22Rule(i)
             /\ ~HasKey(InRecs[n], rules[i][1])
             /\ GetPath(InRecs[n], C7Keys(rules[i][1])) # Null)
            => LET found == GetPath(InRecs[n], C7Keys(rules[i][1]))
                   want == _process_value(found, rules[i][2])
               IN  want # Null => C7Holds(OutRecs[n], C7Keys(rules[i][1]), Pruned(want))

\* rule i is a directive mapping of fields, limit, regex without sub-rules on
\* a plain key no other rule addresses
C23Rule(i) ==
    /\ IsDictInstr(rules[i][2])
    /\ DOMAIN rules[i][2].d # {}
    /\ DOMAIN rules[i][2].d \subseteq {"fields", "limit", "regex"}
    /\ rules[i][2].sub = <<>>
    /\ PlainKey(rules[i][1])
    /\ Alone(i, <<rules[i][1]>>)

\* none of the directives d fits the shape of the value v: limit on a
\* mapping, fields or limit on a string, fields, limit or regex on any other
\* scalar
C23Mismatch(d, v) ==
    /\ v # Null
    /\ ~IsList(v)
    /\ IsMap(v) => DOMAIN d \subseteq {"limit"}
    /\ IsStr(v) => DOMAIN d \subseteq {"fields", "limit"}

\* rule i meets a value in rec that its directives do not fit
C23Case(i, rec) ==
    /\ C23Rule(i)
    /\ IsMap(rec)
    /\ HasKey(rec, rules[i][1])
    /\ C23Mismatch(rules[i][2].d, rec.v[rules[i][1]])

(***************************************************************************)
(* C23  Type mismatch (as claimed): when a directive does not fit the shape *)
(* of the value, the value processor returns the value unchanged and the    *)
(* returned output holds that unprocessed value at the rule's key; no error *)
(* is raised and the key is not dropped.                                    *)
(***************************************************************************)
C23_MismatchUnchanged ==
    pc = "done" =>
        \A i \in 1..Len(rules), n \in 1..Len(InRecs) :
            C23Case(i, InRecs[n]) =>
                /\ HasKey(OutRecs[n], rules[i][1])
                /\ OutRecs[n].v[rules[i][1]] = InRecs[n].v[rules[i][1]]

(***************************************************************************)
(* C23  Type mismatch (amended): when a directive does not fit the shape of *)
(* the value, the value processor returns the value unchanged, the rule     *)
(* stores it at its key and raises no error, and the returned output holds  *)
(* at that key the value with every null mapping value and null sequence    *)
(* element removed at every depth: the value itself when it is a scalar or  *)
(* a mapping without nulls.  The key is not dropped.                        *)
(***************************************************************************)
C23_MismatchPruned ==
    /\ Working =>
        \A i \in 1..(r - 1) :
            C23Case(i, InRecs[idx]) =>
                /\ HasKey(output, rules[i][1])
                /\ output.v[rules[i][1]] = InRecs[idx].v[rules[i][1]]
    /\ (pc = "raised" /\ idx <= Len(InRecs) /\ r <= Len(rules)) =>
            ~C23Case(r, InRecs[idx])
    /\ pc = "done" =>
        \A i \in 1..Len(rules), n \in 1..Len(InRecs) :
            C23Case(i, InRecs[n]) =>
                /\ HasKey(OutRecs[n], rules[i][1])
                /\ OutRecs[n].v[rules[i][1]] = Pruned(InRecs[n].v[rules[i][1]])
                /\ ~HasNull(InRecs[n].v[rules[i][1]]) =>
                      OutRecs[n].v[rules[i][1]] = InRecs[n].v[rules[i][1]]

\* a limit met a mapping and a regex met a number in one call: the number is
\* returned as it is, the mapping without its null
C23_Witness ==
    /\ pc = "done"
    /\ data0 = RecA
    /\ Len(rules) = 2
    /\ \E i, j \in 1..2 :
        /\ C23Case(i, data0)
        /\ rules[i][1] = kB
        /\ result.v[kB] # data0.v[kB]
        /\ C23Case(j, data0)
        /\ "regex" \in DOMAIN rules[j][2].d
        /\ result.v[rules[j][1]] = data0.v[rules[j][1]]

(***************************************************************************)
(* C25  String instruction: a top-level rule whose instruction is a string  *)
(* is accepted and the string ignored: for every record the output equals   *)
(* the output of the same rule set with that instruction replaced by true,  *)
(* so the value is stored under the key derived from the path and never     *)
(* under the string.                                                        *)
(***************************************************************************)
\* the rule set with every string instruction replaced by true
C25AsTrue(rs) ==
    [i \in 1..Len(rs) |-> IF rs[i][2].t = "str" THEN <<rs[i][1], ITrue>> ELSE rs[i]]

\* no rule of the rule set writes at or under the top-level key k
C25Unwritten(k) ==
    \A j \in 1..Len(rules) : \A q \in WriteKeys(rules[j]) : q = <<>> \/ q[1] # k

C25_StringAsTrue ==
    /\ pc = "done" =>
        /\ result = ExtractAlone(C25AsTrue(rules), data0)
        /\ \A i \in 1..Len(rules), n \in 1..Len(InRecs) :
              (rules[i][2].t = "str" /\ C25Unwritten(rules[i][2].v)) =>
                  ~HasKey(OutRecs[n], rules[i][2].v)
    /\ pc = "raised" => ExtractAlone(C25AsTrue(rules), data0) = Raise

\* a wildcard rule and a dotted rule, both with a string instruction, left
\* their values at the locations their paths give
C25_Witness ==
    /\ pc = "done"
    /\ data0 = RecA
    /\ Len(rules) = 2
    /\ rules[1][2].t = "str"
    /\ rules[2][2].t = "str"
    /\ StrIn(Star, rules[1][1])
    /\ StrIn(Dot, rules[2][1])
    /\ C7Holds(result, C7Keys(rules[1][1]), JList(<<JStr(sY)>>))
    /\ C7Holds(result, C7Keys(rules[2][1]), data0.v[kB].v[kC])

(***************************************************************************)
(* C26  Wildcard list: for a top-level rule A[*].S with instruction true    *)
(* on a record where A is a sequence, the extracted list is exactly the S   *)
(* values of the elements that are mappings with a non-null S, in element   *)
(* order; other elements contribute nothing, so the list is never longer    *)
(* than record[A].  The returned list holds these values null-pruned.       *)
(***************************************************************************)
\* the S values of the elements of seq that are mappings with a non-null S
C26Values(seq, S) ==
    LET Contributes(x) == IsMap(x) /\ HasKey(x, S) /\ x.v[S] # Null
        from == SelectSeq(seq, Contributes)
    IN  JList([j \in 1..Len(from) |-> from[j].v[S]])

C26_WildcardList ==
    /\ Working =>
        \A i \in 1..(r - 1) :
            LET A == SplitOnce(rules[i][1], StarDot)[1]
                S == SplitOnce(rules[i][1], StarDot)[2]
                rec == InRecs[idx]
            IN  (C5Rule(i) /\ HasKey(rec, A) /\ IsList(rec.v[A])) =>
                    /\ C7Holds(output, <<A, S>>, C26Values(rec.v[A].v, S))
                    /\ Len(GetPath(output, <<A, S>>).v) <= Len(rec.v[A].v)
    /\ pc = "done" =>
        \A i \in 1..Len(rules), n \in 1..Len(InRecs) :
            LET A == SplitOnce(rules[i][1], StarDot)[1]
                S == SplitOnce(rules[i][1], StarDot)[2]
                rec == InRecs[n]
            IN  (C5Rule(i) /\ HasKey(rec, A) /\ IsList(rec.v[A])) =>
                    /\ C7Holds(OutRecs[n], <<A, S>>, Pruned(C26Values(rec.v[A].v, S)))
                    /\ Len(GetPath(OutRecs[n], <<A, S>>).v) <= Len(rec.v[A].v)

\* two wildcard rules: one list left out an element with a null S and an
\* element that is a number, the other an element without S
C26_Witness ==
    /\ pc = "done"
    /\ data0 = RecA
    /\ Len(rules) = 2
    /\ C5Rule(1)
    /\ C5Rule(2)
    /\ C7Holds(result, <<kA, kU>>, JList(<<JStr(sX)>>))
    /\ C7Holds(result, <<kP, kName>>, JList(<<JStr(sTom), JStr(sBan)>>))

(***************************************************************************)
(* C29  Fields on a mapping and on an element: processing a mapping v with  *)
(* {fields: F} gives the same mapping as the single element of processing   *)
(* the sequence [v] with {fields: F}, for plain names, nested specs and     *)
(* wildcard specs alike.                                                    *)
(***************************************************************************)
\* rule i is {fields: F} alone, on a plain key, meeting a mapping in rec
C29Case(i, rec) ==
    /\ IsDictInstr(rules[i][2])
    /\ DOMAIN rules[i][2].d = {"fields"}
    /\ rules[i][2].sub = <<>>
    /\ PlainKey(rules[i][1])
    /\ Alone(i, <<rules[i][1]>>)
    /\ IsMap(rec)
    /\ HasKey(rec, rules[i][1])
    /\ IsMap(rec.v[rules[i][1]])

C29_FieldsSameShape ==
    /\ Working =>
        \A i \in 1..(r - 1) :
            C29Case(i, InRecs[idx]) =>
                /\ HasKey(output, rules[i][1])
                /\ output.v[rules[i][1]]
                      = _process_value(JList(<<InRecs[idx].v[rules[i][1]]>>), rules[i][2]).v[1]
    /\ (pc = "raised" /\ idx <= Len(InRecs) /\ r <= Len(rules)) =>
            ~C29Case(r, InRecs[idx])

(***************************************************************************)
(* Mixed instructions on mappings and on sequences of mixed elements        *)
(***************************************************************************)
RecF ==
    Rec2(kP, JList(<<JStr(sTom),
                     Rec2(kName, JStr(sX), kU, JNum(1)),
                     Rec2(kName, JStr(sY), kU, JNum(2))>>),
         kB, Rec2(kU, JNum(1),
                  kC, JList(<<Rec1(kU, JNum(2)), Rec1(kName, JStr(sY))>>)))

InputsMixed ==
    {RecA, RecC, RecD, RecF} \cup {JList(q) : q \in SeqsUpTo({RecC, RecF}, MaxRecs)}

PoolMixed ==
    { <<kB, IDict([fields |-> Fields1(kU)], << <<kC, ITrue>>, <<kName, ITrue>> >>)>>,
      <<kB, IDict([fields |-> Fields1(kName)],
                  << <<kC, IDict([fields |-> Fields1(kU)], <<>>)>>,
                     <<kU, IList(<<kName>>)>> >>)>>,
      <<kB, IDict([fields |-> Fields1(kU)],
                  << <<kC \o StarDot \o kU, ITrue>>, <<kC, IList(<<kU>>)>> >>)>>,
      <<kB, IDict([fields |-> Fields1(kU)], << <<kC, IStr(kName)>> >>)>>,
      <<kP, IDict([fields |-> Fields1(kName), filter |-> "is_dict"], << <<kU, ITrue>> >>)>>,
      <<kP, IDict([fields |-> Fields1(kName), limit |-> 1],
                  << <<kU, ITrue>>, <<kA \o StarDot \o kU, ITrue>> >>)>>,
      <<kP, IDict([fields |-> Fields1(kName), regex |-> pAn], << <<kU, ITrue>> >>)>>,
      <<kP, IDict([fields |-> Fields1(kName)], << <<kU, IStr(kC)>> >>)>>,
      <<kA, IDict([fields |-> Fields1(kName), filter |-> "is_dict", limit |-> 2],
                  << <<kU, ITrue>> >>)>>,
      <<kB \o Dot \o kC, ITrue>> }

\* extract(data) is entered on a record whose mappings and sequences the
\* mixed instructions address
CallMixed ==
    /\ \E d \in InputsMixed : Enter(d)
    /\ UNCHANGED <<seen, other>>

NextMixed ==
    \/ CallMixed
    \/ ProcessMixedInstruction
    \/ ProcessPathExtraction
    \/ FinishRecord
    \/ Return

SpecMixed == InitWith(PoolMixed) /\ [][NextMixed]_vars

(***************************************************************************)
(* C24  Mixed instruction on a mapping: for a mixed instruction at key p    *)
(* whose value record[p] is a mapping, output[p] is one mapping holding the *)
(* fields of F present in record[p] and the result of every sub-rule        *)
(* applied to record[p]: true copies the field, a list or a directive       *)
(* mapping projects it, a wildcard sub-rule writes its list under its       *)
(* derived key.  The returned mapping holds the same, null-pruned.          *)
(***************************************************************************)
\* rule i is a mixed instruction with plain fields on a plain key that no
\* other rule addresses, meeting a mapping in rec
C24Case(i, rec) ==
    /\ _is_mixed_instruction(rules[i][2])
    /\ \A f \in 1..Len(rules[i][2].d.fields) :
          /\ rules[i][2].d.fields[f].t = "str"
          /\ PlainKey(rules[i][2].d.fields[f].v)
    /\ PlainKey(rules[i][1])
    /\ Alone(i, <<rules[i][1]>>)
    /\ IsMap(rec)
    /\ HasKey(rec, rules[i][1])
    /\ IsMap(rec.v[rules[i][1]])

\* the mapping x restricted to the names of the sequence names it has
C24Project(x, names) ==
    JMap([k \in {names[j] : j \in 1..Len(names)} \cap DOMAIN x.v |-> x.v[k]])

\* sub-rule q is the last of subs to write its key
C24Last(subs, q) == \A q2 \in (q + 1)..Len(subs) : SubKey(subs[q2]) # SubKey(subs[q])

\* what sub-rule sub is to leave under its key for the mapping e; Null where
\* it leaves nothing
C24Expected(e, sub) ==
    IF StrIn(StarDot, sub[1])
    THEN LET A == SplitOnce(sub[1], StarDot)[1]
             S == SplitOnce(sub[1], StarDot)[2]
         IN  IF HasKey(e, A) /\ IsList(e.v[A]) THEN JList(ElementValues(e.v[A].v, S))
             ELSE Null
    ELSE IF ~HasKey(e, sub[1]) THEN Null
    ELSE LET x == e.v[sub[1]]
         IN  CASE sub[2].t = "true" -> x
               [] sub[2].t = "list" -> IF IsMap(x) THEN C24Project(x, sub[2].v) ELSE x
               [] sub[2].t = "dict" /\ DOMAIN sub[2].d = {"fields"} /\ IsMap(x)
                    -> C9Projection(x, sub[2].d.fields)
               [] sub[2].t = "dict" /\ ~IsMap(x) /\ ~IsList(x) /\ ~IsStr(x) -> x
               [] OTHER -> Null

\* the mapping o holds, for the mapping e, the fields F and the sub-rules'
\* results; Via is the identity or the null pruning
C24Holds(e, o, F, subs, Via(_)) ==
    /\ IsMap(o)
    /\ \A f \in 1..Len(F) :
          (/\ HasKey(e, F[f].v)
           /\ e.v[F[f].v] # Null
           /\ \A q \in 1..Len(subs) : SubKey(subs[q]) # F[f].v)
          => HasKey(o, F[f].v) /\ o.v[F[f].v] = Via(e.v[F[f].v])
    /\ \A q \in 1..Len(subs) :
          (C24Last(subs, q) /\ C24Expected(e, subs[q]) # Null)
          => HasKey(o, SubKey(subs[q])) /\ o.v[SubKey(subs[q])] = Via(C24Expected(e, subs[q]))
    /\ DOMAIN o.v \subseteq {F[f].v : f \in 1..Len(F)} \cup {SubKey(subs[q]) : q \in 1..Len(subs)}

C24_MixedOnMapping ==
    /\ Working =>
        \A i \in 1..(r - 1) :
            C24Case(i, InRecs[idx]) =>
                LET Same(x) == x
                IN  /\ HasKey(output, rules[i][1])
                    /\ C24Holds(InRecs[idx].v[rules[i][1]], output.v[rules[i][1]],
                                rules[i][2].d.fields, rules[i][2].sub, Same)
    /\ pc = "done" =>
        \A i \in 1..Len(rules), n \in 1..Len(InRecs) :
            C24Case(i, InRecs[n]) =>
                /\ HasKey(OutRecs[n], rules[i][1])
                /\ C24Holds(InRecs[n].v[rules[i][1]], OutRecs[n].v[rules[i][1]],
                            rules[i][2].d.fields, rules[i][2].sub, Pruned)

\* one returned mapping holds a field of F, a wildcard sub-rule's list under
\* its derived key and a list sub-rule's copy
C24_Witness ==
    /\ pc = "done"
    /\ data0 = RecF
    /\ \E i \in 1..Len(rules) :
        /\ C24Case(i, data0)
        /\ rules[i][1] = kB
        /\ result.v[kB] = Rec3(kU, JNum(1),
                               kC \o Underscore \o kU, JList(<<JNum(2)>>),
                               kC, data0.v[kB].v[kC])

\* rule i is a mixed instruction with plain fields and no negative limit on
\* a plain key that no other rule addresses, meeting a sequence in rec
C27Case(i, rec) ==
    /\ _is_mixed_instruction(rules[i][2])
    /\ \A f \in 1..Len(rules[i][2].d.fields) :
          /\ rules[i][2].d.fields[f].t = "str"
          /\ PlainKey(rules[i][2].d.fields[f].v)
    /\ "limit" \in DOMAIN rules[i][2].d => rules[i][2].d.limit >= 0
    /\ PlainKey(rules[i][1])
    /\ Alone(i, <<rules[i][1]>>)
    /\ IsMap(rec)
    /\ HasKey(rec, rules[i][1])
    /\ IsList(rec.v[rules[i][1]])

(***************************************************************************)
(* C27  One source per element: in a mixed instruction over a sequence      *)
(* whose directive part has regex or a custom filter, every element of      *)
(* output[p] is built from a single element of record[p]: its projected     *)
(* fields and the sub-rule results merged into it come from the same        *)
(* element, even when the filter removed earlier elements.                  *)
(***************************************************************************)
C27_SingleSource ==
    Working =>
        \A i \in 1..(r - 1) :
            (/\ C27Case(i, InRecs[idx])
             /\ {"regex", "filter"} \cap DOMAIN rules[i][2].d # {})
            => LET p == rules[i][1]
                   elems == InRecs[idx].v[p].v
                   From(e) == IF IsMap(e)
                              THEN ApplyAll(e, rules[i][2].sub,
                                            FieldSpecs(e, rules[i][2].d.fields, EmptyMap))
                              ELSE e
               IN  /\ HasKey(output, p)
                   /\ IsList(output.v[p])
                   /\ \A j \in 1..Len(output.v[p].v) :
                         \E n \in 1..Len(elems) : output.v[p].v[j] = From(elems[n])

(***************************************************************************)
(* C28  Length kept: in a mixed instruction over a sequence, applying the   *)
(* sub-rules never changes the length of the list the directive part        *)
(* produced: after every sub-rule is merged output[p] has as many elements  *)
(* as the directive part produced, at most N with limit N (N >= 0), even    *)
(* when record[p] has more; the returned list is no longer.                 *)
(***************************************************************************)
C28_LengthKept ==
    /\ Working =>
        \A i \in 1..(r - 1) :
            C27Case(i, InRecs[idx]) =>
                LET p == rules[i][1]
                    produced == C19Result(InRecs[idx].v[p].v, rules[i][2].d)
                IN  /\ HasKey(output, p)
                    /\ IsList(output.v[p])
                    /\ Len(output.v[p].v) = Len(produced.v)
                    /\ "limit" \in DOMAIN rules[i][2].d =>
                          Len(output.v[p].v) <= rules[i][2].d.limit
    /\ pc = "done" =>
        \A i \in 1..Len(rules), n \in 1..Len(InRecs) :
            C27Case(i, InRecs[n]) =>
                LET p == rules[i][1]
                    produced == C19Result(InRecs[n].v[p].v, rules[i][2].d)
                IN  /\ HasKey(OutRecs[n], p)
                    /\ IsList(OutRecs[n].v[p])
                    /\ Len(OutRecs[n].v[p].v) <= Len(produced.v)
                    /\ "limit" \in DOMAIN rules[i][2].d =>
                          Len(OutRecs[n].v[p].v) <= rules[i][2].d.limit

\* a limit of 1 met a sequence of three mappings and two sub-rules: one
\* element is returned, holding a sub-rule's result
C28_Witness ==
    /\ pc = "done"
    /\ data0 = RecA
    /\ \E i \in 1..Len(rules) :
        /\ C27Case(i, data0)
        /\ "limit" \in DOMAIN rules[i][2].d
        /\ Len(rules[i][2].sub) = 2
        /\ Len(data0.v[rules[i][1]].v) = 3
        /\ Len(result.v[rules[i][1]].v) = 1
        /\ HasKey(result.v[rules[i][1]].v[1], SubKey(rules[i][2].sub[2]))

(***************************************************************************)
(* C30  String sub-instruction: an instruction means the same for a         *)
(* sub-rule of a mixed instruction as for a top-level rule: for a           *)
(* non-wildcard sub-rule key present in the parent element, a string        *)
(* instruction copies the element's value under that key as true does.      *)
(***************************************************************************)
\* the rule set with the string instructions of the non-wildcard sub-rules
\* of its mixed instructions replaced by true
C30AsTrue(rs) ==
    [i \in 1..Len(rs) |->
        IF _is_mixed_instruction(rs[i][2])
        THEN <<rs[i][1],
               IDict(rs[i][2].d,
                     [q \in 1..Len(rs[i][2].sub) |->
                        IF rs[i][2].sub[q][2].t = "str" /\ ~StrIn(Star, rs[i][2].sub[q][1])
                        THEN <<rs[i][2].sub[q][1], ITrue>>
                        ELSE rs[i][2].sub[q]])>>
        ELSE rs[i]]

C30_SubStringAsTrue ==
    pc = "done" => result = ExtractAlone(C30AsTrue(rules), data0)

====
